---- MODULE Spec2Model ----
(***************************************************************************)
(* Model of the Asteroid language server (src/src/server.ts): the lexer    *)
(* AsteroidLexer, the symbol extractor AsteroidParser, validateDocument,   *)
(* the per-document store documentInfos and the request handlers.          *)
(*                                                                         *)
(* A text is a sequence of one-character strings.  Positions (pos, line,   *)
(* column, character) are 0-based as in the source; text[pos + 1] is the   *)
(* character the source writes text[pos].                                  *)
(***************************************************************************)
EXTENDS Integers, Sequences, FiniteSets, TLC

(***************************************************************************)
(* Fixed word lists (server.ts 34-50), each word a sequence of characters, *)
(* in the order of the source arrays.                                      *)
(***************************************************************************)
KEYWORDS ==
  << <<"a","n","d">>,
     <<"a","s","s","e","r","t">>,
     <<"b","r","e","a","k">>,
     <<"c","a","t","c","h">>,
     <<"c","l","a","s","s">>,
     <<"c","o","n","s","t","r","u","c","t","o","r">>,
     <<"d","a","t","a">>,
     <<"d","o">>,
     <<"e","l","i","f">>,
     <<"e","l","s","e">>,
     <<"e","n","d">>,
     <<"e","s","c","a","p","e">>,
     <<"e","v","a","l">>,
     <<"f","a","l","s","e">>,
     <<"f","o","r">>,
     <<"f","u","n","c","t","i","o","n">>,
     <<"g","l","o","b","a","l">>,
     <<"i","f">>,
     <<"i","n">>,
     <<"i","s">>,
     <<"l","a","m","b","d","a">>,
     <<"l","e","t">>,
     <<"l","o","a","d">>,
     <<"l","o","o","p">>,
     <<"m","a","t","c","h">>,
     <<"m","o","d","u","l","e">>,
     <<"n","o","n","e">>,
     <<"n","o","n","l","o","c","a","l">>,
     <<"n","o","t">>,
     <<"o","r">>,
     <<"r","e","t","u","r","n">>,
     <<"s","t","e","p">>,
     <<"s","t","r","u","c","t">>,
     <<"s","y","s","t","e","m">>,
     <<"t","h","r","o","w">>,
     <<"t","o">>,
     <<"t","r","u","e">>,
     <<"t","r","y">>,
     <<"u","n","l","o","a","d">>,
     <<"u","n","t","i","l">>,
     <<"w","h","i","l","e">>,
     <<"w","i","t","h">>,
     <<"y","i","e","l","d">> >>

BUILTIN_FUNCTIONS ==
  << <<"a","b","s">>,
     <<"a","l","l">>,
     <<"a","n","y">>,
     <<"a","p","p","l","y">>,
     <<"b","o","o","l">>,
     <<"c","a","l","l">>,
     <<"c","h","r">>,
     <<"c","m","p">>,
     <<"d","i","c","t">>,
     <<"e","n","u","m","e","r","a","t","e">>,
     <<"f","i","l","t","e","r">>,
     <<"f","l","o","a","t">>,
     <<"f","o","r","m","a","t">>,
     <<"f","r","e","e","z","e">>,
     <<"f","r","o","z","e","n","s","e","t">>,
     <<"h","a","s","h">>,
     <<"h","e","l","p">>,
     <<"i","d">>,
     <<"i","n","t">>,
     <<"i","s","i","n","s","t","a","n","c","e">>,
     <<"i","s","s","u","b","c","l","a","s","s">>,
     <<"i","t","e","r">>,
     <<"l","e","n">>,
     <<"l","i","s","t">>,
     <<"m","a","p">>,
     <<"m","a","x">>,
     <<"m","i","n">>,
     <<"o","r","d">>,
     <<"p","r","i","n","t","l","n">>,
     <<"r","a","n","g","e">>,
     <<"r","e","d","u","c","e">>,
     <<"r","e","p","r">>,
     <<"r","e","v","e","r","s","e">>,
     <<"r","o","u","n","d">>,
     <<"s","e","t">>,
     <<"s","o","r","t","e","d">>,
     <<"s","t","r">>,
     <<"s","u","m">>,
     <<"t","u","p","l","e">>,
     <<"t","y","p","e">>,
     <<"z","i","p">> >>

SYSTEM_MODULES ==
  << <<"i","o">>,
     <<"m","a","t","h">>,
     <<"o","s">>,
     <<"r","a","n","d","o","m">>,
     <<"s","t","r","i","n","g">>,
     <<"t","i","m","e">>,
     <<"u","t","i","l">> >>

Elems(seq) == { seq[i] : i \in 1..Len(seq) }

\* Array.prototype.includes on a list of words.
Includes(list, word) == \E i \in 1..Len(list) : list[i] = word

(***************************************************************************)
(* Character classes of the regular expressions the lexer tests.           *)
(***************************************************************************)
Digits ==
  { "0", "1", "2", "3", "4", "5", "6", "7", "8", "9" }

Letters ==
  { "a", "b", "c", "d", "e", "f", "g", "h", "i", "j", "k", "l", "m",
    "n", "o", "p", "q", "r", "s", "t", "u", "v", "w", "x", "y", "z",
    "A", "B", "C", "D", "E", "F", "G", "H", "I", "J", "K", "L", "M",
    "N", "O", "P", "Q", "R", "S", "T", "U", "V", "W", "X", "Y", "Z" }

\* /\s/ restricted to the ASCII white space characters.
Whitespace == { " ", "\t", "\n", "\r" }

\* /\d/
IsDigit(c) == c \in Digits

\* /[\d.]/
IsNumberChar(c) == c \in Digits \cup {"."}

\* /[a-zA-Z_]/
IsIdentStart(c) == c \in Letters \cup {"_"}

\* /[a-zA-Z0-9_]/
IsWordChar(c) == c \in Letters \cup Digits \cup {"_"}

(***************************************************************************)
(* AsteroidLexer.  The lexer's fields pos, line and column are the record  *)
(* s; the field text is the parameter text.  "" is the empty string peek   *)
(* returns at the end of the text, which the source tests as falsy.        *)
(***************************************************************************)
LexerInit == [pos |-> 0, line |-> 0, column |-> 0]

peek(text, s) == IF s.pos < Len(text) THEN text[s.pos + 1] ELSE ""

\* advance without the newline branch: the column keeps counting and the
\* line stays.
advanceNoNewline(text, s) ==
  [pos |-> s.pos + 1, line |-> s.line, column |-> s.column + 1]

advance(text, s) ==
  IF s.pos < Len(text) /\ text[s.pos + 1] = "\n"
    THEN [pos |-> s.pos + 1, line |-> s.line + 1, column |-> 0]
    ELSE [pos |-> s.pos + 1, line |-> s.line, column |-> s.column + 1]

RECURSIVE skipWhitespace(_, _)
skipWhitespace(text, s) ==
  IF peek(text, s) # "" /\ peek(text, s) \in Whitespace
    THEN skipWhitespace(text, advance(text, s))
    ELSE s

\* The while loop of skipComment: up to, not including, the newline.
RECURSIVE skipCommentLoop(_, _)
skipCommentLoop(text, s) ==
  IF peek(text, s) # "" /\ peek(text, s) # "\n"
    THEN skipCommentLoop(text, advance(text, s))
    ELSE s

skipComment(text, s) ==
  IF peek(text, s) = "%" THEN skipCommentLoop(text, s) ELSE s

\* readStringLoop without the escape branch: a backslash is kept as an
\* ordinary character and the quote after it ends the literal.
RECURSIVE readStringLoopNoEscape(_, _, _)
readStringLoopNoEscape(text, quote, r) ==
  IF peek(text, r.s) # "" /\ peek(text, r.s) # quote
    THEN readStringLoopNoEscape(text, quote,
           [value |-> Append(r.value, peek(text, r.s)),
            s |-> advance(text, r.s)])
    ELSE r

\* readStringLoop without the test for a character after the backslash:
\* the scan steps over the character after a backslash even at end of text.
RECURSIVE readStringLoopUnguarded(_, _, _)
readStringLoopUnguarded(text, quote, r) ==
  IF peek(text, r.s) # "" /\ peek(text, r.s) # quote
    THEN IF peek(text, r.s) = "\\"
           THEN LET s1 == advance(text, r.s)
                IN  readStringLoopUnguarded(text, quote,
                      [value |-> IF peek(text, s1) # ""
                                   THEN Append(r.value, peek(text, s1))
                                   ELSE r.value,
                       s |-> advance(text, s1)])
           ELSE readStringLoopUnguarded(text, quote,
                  [value |-> Append(r.value, peek(text, r.s)),
                   s |-> advance(text, r.s)])
    ELSE r

\* readStringLoop that also stops at a newline: the scan is bounded by the
\* line of the opening quote.
RECURSIVE readStringLoopLineBounded(_, _, _)
readStringLoopLineBounded(text, quote, r) ==
  IF peek(text, r.s) # "" /\ peek(text, r.s) # quote /\ peek(text, r.s) # "\n"
    THEN IF peek(text, r.s) = "\\"
           THEN LET s1 == advance(text, r.s)
                IN  IF peek(text, s1) # ""
                      THEN readStringLoopLineBounded(text, quote,
                             [value |-> Append(r.value, peek(text, s1)),
                              s |-> advance(text, s1)])
                      ELSE readStringLoopLineBounded(text, quote,
                             [value |-> r.value, s |-> s1])
           ELSE readStringLoopLineBounded(text, quote,
                  [value |-> Append(r.value, peek(text, r.s)),
                   s |-> advance(text, r.s)])
    ELSE r

\* The while loop of readString; r is [value, s].
RECURSIVE readStringLoop(_, _, _)
readStringLoop(text, quote, r) ==
  IF peek(text, r.s) # "" /\ peek(text, r.s) # quote
    THEN IF peek(text, r.s) = "\\"
           THEN LET s1 == advance(text, r.s)
                IN  IF peek(text, s1) # ""
                      THEN readStringLoop(text, quote,
                             [value |-> Append(r.value, peek(text, s1)),
                              s |-> advance(text, s1)])
                      ELSE readStringLoop(text, quote, [value |-> r.value, s |-> s1])
           ELSE readStringLoop(text, quote,
                  [value |-> Append(r.value, peek(text, r.s)),
                   s |-> advance(text, r.s)])
    ELSE r

\* Returns the source's { value, valid } and the lexer state after the scan.
readString(text, s) ==
  LET quote == peek(text, s)
      r     == readStringLoop(text, quote, [value |-> <<>>, s |-> advance(text, s)])
  IN  IF peek(text, r.s) = quote
        THEN [value |-> r.value, valid |-> TRUE, s |-> advance(text, r.s)]
        ELSE [value |-> r.value, valid |-> FALSE, s |-> r.s]

\* readNumberLoop that stops at a second '.'.
RECURSIVE readNumberLoopOneDot(_, _)
readNumberLoopOneDot(text, r) ==
  IF /\ peek(text, r.s) # ""
     /\ IsNumberChar(peek(text, r.s))
     /\ ~(peek(text, r.s) = "." /\ \E k \in 1..Len(r.value) : r.value[k] = ".")
    THEN readNumberLoopOneDot(text, [value |-> Append(r.value, peek(text, r.s)),
                                     s |-> advance(text, r.s)])
    ELSE r

RECURSIVE readNumberLoop(_, _)
readNumberLoop(text, r) ==
  IF peek(text, r.s) # "" /\ IsNumberChar(peek(text, r.s))
    THEN readNumberLoop(text, [value |-> Append(r.value, peek(text, r.s)),
                               s |-> advance(text, r.s)])
    ELSE r

readNumber(text, s) == readNumberLoop(text, [value |-> <<>>, s |-> s])

RECURSIVE readIdentifierLoop(_, _)
readIdentifierLoop(text, r) ==
  IF peek(text, r.s) # "" /\ IsWordChar(peek(text, r.s))
    THEN readIdentifierLoop(text, [value |-> Append(r.value, peek(text, r.s)),
                                   s |-> advance(text, r.s)])
    ELSE r

readIdentifier(text, s) == readIdentifierLoop(text, [value |-> <<>>, s |-> s])

\* The two-character operators, in the order the source probes them.
operators ==
  << <<"=","=">>, <<"!","=">>, <<"<","=">>, <<">","=">>, <<"-",">">>, <<"=",">">> >>

\* text.substr(pos, op.length) === op
SubstrIs(text, pos, op) ==
  /\ pos + Len(op) <= Len(text)
  /\ \A i \in 1..Len(op) : text[pos + i] = op[i]

\* The for loop over the operators matching nothing: every character falls
\* to the single-character branch.
MatchedOperatorNone(text, s) == 0

\* Index of the first operator the for loop matches, 0 when none does.
MatchedOperator(text, s) ==
  IF \E i \in 1..Len(operators) : SubstrIs(text, s.pos, operators[i])
    THEN CHOOSE i \in 1..Len(operators) :
           /\ SubstrIs(text, s.pos, operators[i])
           /\ \A j \in 1..(i - 1) : ~SubstrIs(text, s.pos, operators[j])
    ELSE 0

RECURSIVE advanceTimes(_, _, _)
advanceTimes(text, s, n) ==
  IF n = 0 THEN s ELSE advanceTimes(text, advance(text, s), n - 1)

\* One iteration of the while loop of tokenize, from the character at s
\* (white space and comment already skipped): the token pushed and the
\* lexer state after it.
scanToken(text, s) ==
  LET char == peek(text, s)
  IN  IF char = "\"" \/ char = "'"
        THEN LET stringResult == readString(text, s)
             IN  [token |-> [type |-> "STRING", value |-> stringResult.value,
                             line |-> s.line, column |-> s.column,
                             valid |-> stringResult.valid],
                  s |-> stringResult.s]
      ELSE IF IsDigit(char)
        THEN LET r == readNumber(text, s)
             IN  [token |-> [type |-> "NUMBER", value |-> r.value,
                             line |-> s.line, column |-> s.column],
                  s |-> r.s]
      ELSE IF IsIdentStart(char)
        THEN LET r == readIdentifier(text, s)
             IN  [token |-> [type |-> IF Includes(KEYWORDS, r.value)
                                        THEN "KEYWORD" ELSE "IDENTIFIER",
                             value |-> r.value,
                             line |-> s.line, column |-> s.column],
                  s |-> r.s]
      ELSE IF char = "@"
        THEN [token |-> [type |-> "AT", value |-> <<"@">>,
                         line |-> s.line, column |-> s.column],
              s |-> advance(text, s)]
      ELSE LET m == MatchedOperator(text, s)
           IN  IF m # 0
                 THEN [token |-> [type |-> "OPERATOR", value |-> operators[m],
                                  line |-> s.line, column |-> s.column],
                       s |-> advanceTimes(text, s, Len(operators[m]))]
                 ELSE [token |-> [type |-> "PUNCTUATION", value |-> <<char>>,
                                  line |-> s.line, column |-> s.column],
                       s |-> advance(text, s)]

RECURSIVE tokenizeLoop(_, _, _)
tokenizeLoop(text, s, tokens) ==
  IF s.pos < Len(text)
    THEN LET s1 == skipComment(text, skipWhitespace(text, s))
         IN  IF s1.pos >= Len(text)
               THEN tokens
               ELSE LET r == scanToken(text, s1)
                    IN  tokenizeLoop(text, r.s, Append(tokens, r.token))
    ELSE tokens

tokenize(text) == tokenizeLoop(text, LexerInit, <<>>)

(***************************************************************************)
(* A JavaScript Map<string, AsteroidSymbol>: the sequence of its entries   *)
(* in insertion order, each entry the symbol stored under its own name.    *)
(* set() on a present key replaces the value where it stands.              *)
(***************************************************************************)
MapNew == <<>>

MapHas(m, key) == \E i \in 1..Len(m) : m[i].name = key

MapGet(m, key) == m[CHOOSE i \in 1..Len(m) : m[i].name = key]

\* set() that leaves a present key alone: the first declaration would win.
MapSetKeepFirst(m, symbol) ==
  IF MapHas(m, symbol.name) THEN m ELSE Append(m, symbol)

\* set() that deletes a present key and inserts it anew: a redeclared name
\* moves to the end of the iteration order.
MapSetMoveToEnd(m, symbol) ==
  Append(SelectSeq(m, LAMBDA e : e.name # symbol.name), symbol)

MapSet(m, symbol) ==
  IF MapHas(m, symbol.name)
    THEN [i \in 1..Len(m) |-> IF m[i].name = symbol.name THEN symbol ELSE m[i]]
    ELSE Append(m, symbol)

MapKeys(m) == { m[i].name : i \in 1..Len(m) }

(***************************************************************************)
(* AsteroidParser.  The parser's field pos and the DocumentInfo it fills   *)
(* are the record p = [pos, info]; null is the token peek returns at the   *)
(* end of the token list.                                                  *)
(***************************************************************************)
null == [type |-> "null"]

DocumentInfoNew ==
  [symbols |-> MapNew, imports |-> <<>>, functions |-> MapNew, variables |-> MapNew]

peekToken(tokens, pos) == IF pos < Len(tokens) THEN tokens[pos + 1] ELSE null

advancePos(tokens, pos) == IF pos < Len(tokens) THEN pos + 1 ELSE pos

\* The Range literal with the end taken on the keyword's line.
declRangeKeywordLine(startToken, nameToken) ==
  [start |-> [line |-> startToken.line, character |-> startToken.column],
   end   |-> [line |-> startToken.line,
              character |-> nameToken.column + Len(nameToken.value)]]

\* The Range literal the three declaration handlers build.
declRange(startToken, nameToken) ==
  [start |-> [line |-> startToken.line, character |-> startToken.column],
   end   |-> [line |-> nameToken.line,
              character |-> nameToken.column + Len(nameToken.value)]]

\* parseLoad without the test for the `system` keyword: the token after
\* `load` is taken as the module.
parseLoadAnyModule(tokens, p) ==
  LET pos1        == advancePos(tokens, p.pos)
      moduleToken == peekToken(tokens, pos1)
  IN  IF moduleToken.type = "IDENTIFIER"
        THEN [pos  |-> advancePos(tokens, pos1),
              info |-> [p.info EXCEPT !.imports = Append(@, moduleToken.value)]]
        ELSE [pos |-> pos1, info |-> p.info]

parseLoad(tokens, p) ==
  LET pos1        == advancePos(tokens, p.pos)
      systemToken == peekToken(tokens, pos1)
  IN  IF systemToken.type = "KEYWORD" /\ systemToken.value = <<"s","y","s","t","e","m">>
        THEN LET pos2        == advancePos(tokens, pos1)
                 moduleToken == peekToken(tokens, pos2)
             IN  IF moduleToken.type = "IDENTIFIER"
                   THEN [pos  |-> advancePos(tokens, pos2),
                         info |-> [p.info EXCEPT
                                     !.imports = Append(@, moduleToken.value)]]
                   ELSE [pos |-> pos2, info |-> p.info]
        ELSE [pos |-> pos1, info |-> p.info]

\* parseFunction that takes a keyword after `function` as the name too.
parseFunctionAnyWord(tokens, p) ==
  LET startToken == peekToken(tokens, p.pos)
      pos1       == advancePos(tokens, p.pos)
      nameToken  == peekToken(tokens, pos1)
  IN  IF nameToken.type \in {"IDENTIFIER", "KEYWORD"}
        THEN LET range  == declRange(startToken, nameToken)
                 symbol == [name |-> nameToken.value, kind |-> "Function",
                            range |-> range, selectionRange |-> range,
                            type |-> <<"f","u","n","c","t","i","o","n">>]
             IN  [pos  |-> advancePos(tokens, pos1),
                  info |-> [p.info EXCEPT !.functions = MapSet(@, symbol),
                                          !.symbols = MapSet(@, symbol)]]
        ELSE [pos |-> pos1, info |-> p.info]

\* parseFunction without info.symbols.set: the symbol reaches the functions
\* sub-map only.
parseFunctionSubMapOnly(tokens, p) ==
  LET startToken == peekToken(tokens, p.pos)
      pos1       == advancePos(tokens, p.pos)
      nameToken  == peekToken(tokens, pos1)
  IN  IF nameToken.type = "IDENTIFIER"
        THEN LET range  == declRange(startToken, nameToken)
                 symbol == [name |-> nameToken.value, kind |-> "Function",
                            range |-> range, selectionRange |-> range,
                            type |-> <<"f","u","n","c","t","i","o","n">>]
             IN  [pos  |-> advancePos(tokens, pos1),
                  info |-> [p.info EXCEPT !.functions = MapSet(@, symbol)]]
        ELSE [pos |-> pos1, info |-> p.info]

parseFunction(tokens, p) ==
  LET startToken == peekToken(tokens, p.pos)
      pos1       == advancePos(tokens, p.pos)
      nameToken  == peekToken(tokens, pos1)
  IN  IF nameToken.type = "IDENTIFIER"
        THEN LET range  == declRange(startToken, nameToken)
                 symbol == [name |-> nameToken.value, kind |-> "Function",
                            range |-> range, selectionRange |-> range,
                            type |-> <<"f","u","n","c","t","i","o","n">>]
             IN  [pos  |-> advancePos(tokens, pos1),
                  info |-> [p.info EXCEPT !.functions = MapSet(@, symbol),
                                          !.symbols = MapSet(@, symbol)]]
        ELSE [pos |-> pos1, info |-> p.info]

\* parseVariable that consumes the token after `let` whatever its type.
parseVariableSkipNext(tokens, p) ==
  LET startToken == peekToken(tokens, p.pos)
      pos1       == advancePos(tokens, p.pos)
      nameToken  == peekToken(tokens, pos1)
  IN  IF nameToken.type = "IDENTIFIER"
        THEN LET range  == declRange(startToken, nameToken)
                 symbol == [name |-> nameToken.value, kind |-> "Variable",
                            range |-> range, selectionRange |-> range,
                            type |-> <<"v","a","r","i","a","b","l","e">>]
             IN  [pos  |-> advancePos(tokens, pos1),
                  info |-> [p.info EXCEPT !.variables = MapSet(@, symbol),
                                          !.symbols = MapSet(@, symbol)]]
        ELSE [pos |-> advancePos(tokens, pos1), info |-> p.info]

parseVariable(tokens, p) ==
  LET startToken == peekToken(tokens, p.pos)
      pos1       == advancePos(tokens, p.pos)
      nameToken  == peekToken(tokens, pos1)
  IN  IF nameToken.type = "IDENTIFIER"
        THEN LET range  == declRange(startToken, nameToken)
                 symbol == [name |-> nameToken.value, kind |-> "Variable",
                            range |-> range, selectionRange |-> range,
                            type |-> <<"v","a","r","i","a","b","l","e">>]
             IN  [pos  |-> advancePos(tokens, pos1),
                  info |-> [p.info EXCEPT !.variables = MapSet(@, symbol),
                                          !.symbols = MapSet(@, symbol)]]
        ELSE [pos |-> pos1, info |-> p.info]

\* parseStruct that takes the token after the keyword as the name whatever
\* its type.
parseStructAnyToken(tokens, p) ==
  LET startToken == peekToken(tokens, p.pos)
      pos1       == advancePos(tokens, p.pos)
      nameToken  == peekToken(tokens, pos1)
  IN  IF nameToken # null
        THEN LET range  == declRange(startToken, nameToken)
                 symbol == [name |-> nameToken.value, kind |-> "Struct",
                            range |-> range, selectionRange |-> range,
                            type |-> startToken.value]
             IN  [pos  |-> advancePos(tokens, pos1),
                  info |-> [p.info EXCEPT !.symbols = MapSet(@, symbol)]]
        ELSE [pos |-> pos1, info |-> p.info]

parseStruct(tokens, p) ==
  LET startToken == peekToken(tokens, p.pos)
      pos1       == advancePos(tokens, p.pos)
      nameToken  == peekToken(tokens, pos1)
  IN  IF nameToken.type = "IDENTIFIER"
        THEN LET range  == declRange(startToken, nameToken)
                 symbol == [name |-> nameToken.value, kind |-> "Struct",
                            range |-> range, selectionRange |-> range,
                            type |-> startToken.value]
             IN  [pos  |-> advancePos(tokens, pos1),
                  info |-> [p.info EXCEPT !.symbols = MapSet(@, symbol)]]
        ELSE [pos |-> pos1, info |-> p.info]

\* One iteration of the while loop of parse: the switch on the token at pos.
parseStep(tokens, p) ==
  LET token == peekToken(tokens, p.pos)
  IN  IF token.type = "KEYWORD"
        THEN CASE token.value = <<"l","o","a","d">> -> parseLoad(tokens, p)
               [] token.value = <<"f","u","n","c","t","i","o","n">> ->
                    parseFunction(tokens, p)
               [] token.value = <<"l","e","t">> -> parseVariable(tokens, p)
               [] token.value \in { <<"s","t","r","u","c","t">>, <<"d","a","t","a">> } ->
                    parseStruct(tokens, p)
               [] OTHER -> [pos |-> advancePos(tokens, p.pos), info |-> p.info]
        ELSE [pos |-> advancePos(tokens, p.pos), info |-> p.info]

RECURSIVE parseLoop(_, _)
parseLoop(tokens, p) ==
  IF p.pos < Len(tokens) THEN parseLoop(tokens, parseStep(tokens, p)) ELSE p

parse(tokens) == parseLoop(tokens, [pos |-> 0, info |-> DocumentInfoNew]).info

(***************************************************************************)
(* validateDocument                                                        *)
(***************************************************************************)
RECURSIVE DigitRun(_, _)
\* The number of digits of value from index i on (1-based).
DigitRun(value, i) ==
  IF i <= Len(value) /\ IsDigit(value[i]) THEN 1 + DigitRun(value, i + 1) ELSE 0

\* /^\d+\.?\d*$/.test(value)
NumberRegexTest(value) ==
  LET n == DigitRun(value, 1)
      k == IF n + 1 <= Len(value) /\ value[n + 1] = "." THEN n + 1 ELSE n
  IN  /\ n >= 1
      /\ k + DigitRun(value, k + 1) = Len(value)

unterminatedDiagnostic(token) ==
  [severity |-> "Error",
   range |-> [start |-> [line |-> token.line, character |-> token.column],
              end   |-> [line |-> token.line,
                         character |-> token.column + Len(token.value) + 1]],
   message |-> "Unterminated string literal",
   source |-> "asteroid-lsp"]

invalidNumberDiagnostic(token) ==
  [severity |-> "Error",
   range |-> [start |-> [line |-> token.line, character |-> token.column],
              end   |-> [line |-> token.line,
                         character |-> token.column + Len(token.value)]],
   message |-> "Invalid number format",
   source |-> "asteroid-lsp"]

\* The diagnostics one iteration of the for loop pushes for token.
validateToken(token) ==
  (IF token.type = "STRING" /\ token.valid = FALSE
     THEN <<unterminatedDiagnostic(token)>> ELSE <<>>)
  \o
  (IF token.type = "NUMBER" /\ ~NumberRegexTest(token.value)
     THEN <<invalidNumberDiagnostic(token)>> ELSE <<>>)

RECURSIVE validateLoop(_, _, _)
validateLoop(tokens, i, diagnostics) ==
  IF i < Len(tokens)
    THEN validateLoop(tokens, i + 1, diagnostics \o validateToken(tokens[i + 1]))
    ELSE diagnostics

validateDocument(tokens) == validateLoop(tokens, 0, <<>>)

(***************************************************************************)
(* getWordRangeAtPosition and String.prototype.split('\n')                 *)
(***************************************************************************)
undefined == [undefined |-> TRUE]

\* The start left at the cursor: no scan to the left.
wordStartAtCursor(line, start) == start

RECURSIVE wordStart(_, _)
wordStart(line, start) ==
  IF start > 0 /\ IsWordChar(line[start]) THEN wordStart(line, start - 1) ELSE start

RECURSIVE wordEnd(_, _)
wordEnd(line, end) ==
  IF end < Len(line) /\ IsWordChar(line[end + 1]) THEN wordEnd(line, end + 1) ELSE end

\* getWordRangeAtPosition that resolves a word only when the cursor is on
\* one of its characters.
getWordRangeAtPositionOnWord(line, character) ==
  IF character < 0 \/ character >= Len(line) \/ ~IsWordChar(line[character + 1])
    THEN undefined
    ELSE [start |-> wordStart(line, character), end |-> wordEnd(line, character)]

\* getWordRangeAtPosition with the bound test one character late: the
\* position just past the end of the line is taken as inside it.
getWordRangeAtPositionPastEnd(line, character) ==
  IF character < 0 \/ character > Len(line)
    THEN undefined
    ELSE LET start == wordStart(line, character)
             end   == wordEnd(line, character)
         IN  IF start = end THEN undefined ELSE [start |-> start, end |-> end]

getWordRangeAtPosition(line, character) ==
  IF character < 0 \/ character >= Len(line)
    THEN undefined
    ELSE LET start == wordStart(line, character)
             end   == wordEnd(line, character)
         IN  IF start = end THEN undefined ELSE [start |-> start, end |-> end]

RECURSIVE splitLoop(_, _, _, _)
splitLoop(text, i, lines, cur) ==
  IF i > Len(text)
    THEN Append(lines, cur)
    ELSE IF text[i] = "\n"
           THEN splitLoop(text, i + 1, Append(lines, cur), <<>>)
           ELSE splitLoop(text, i + 1, lines, Append(cur, text[i]))

\* text.split('\n'): always at least one line.
split(text) == splitLoop(text, 1, <<>>, <<>>)

\* line.substring(start, end)
substring(line, start, end) == SubSeq(line, start + 1, end)

(***************************************************************************)
(* State of the server.                                                    *)
(*   documents      the open documents of the TextDocuments manager:       *)
(*                  uri -> [text, version]                                 *)
(*   documentInfos  the Map<string, DocumentInfo> store: uri -> info       *)
(*   diagnostics    what the client holds: uri -> the list last published  *)
(*   sent           the sendDiagnostics notifications of the last handler  *)
(*   response       the reply the connection has not written out yet: the  *)
(*                  request the last handler answered and its result       *)
(* The server is single-threaded: a handler runs when the reply of the     *)
(* handler before it has been written out.                                 *)
(* A map is a function whose domain is its key set.                        *)
(***************************************************************************)
VARIABLES documents, documentInfos, diagnostics, sent, response

vars == <<documents, documentInfos, diagnostics, sent, response>>

Put(f, k, v) == [x \in (DOMAIN f) \cup {k} |-> IF x = k THEN v ELSE f[x]]

Remove(f, k) == [x \in (DOMAIN f) \ {k} |-> f[x]]

NoResponse == [op |-> "none"]

(***************************************************************************)
(* The request handlers.  Each is the value the handler returns, read from *)
(* documents and documentInfos; params is the request's                    *)
(* TextDocumentPositionParams.  A template literal is the concatenation of *)
(* its pieces as a sequence of characters.                                 *)
(***************************************************************************)
keywordItem(keyword) ==
  [label |-> keyword, kind |-> "Keyword",
   detail |-> <<"A","s","t","e","r","o","i","d"," ","k","e","y","w","o","r","d",":"," ">> \o keyword]

builtinItem(func) ==
  [label |-> func, kind |-> "Function",
   detail |-> <<"B","u","i","l","t","-","i","n"," ","f","u","n","c","t","i","o","n",":"," ">> \o func]

moduleItem(mod) ==
  [label |-> mod, kind |-> "Module",
   detail |-> <<"S","y","s","t","e","m"," ","m","o","d","u","l","e",":"," ">> \o mod]

symbolItem(symbol) ==
  [label |-> symbol.name,
   kind |-> IF symbol.kind = "Function" THEN "Function"
            ELSE IF symbol.kind = "Variable" THEN "Variable"
            ELSE "Class",
   detail |-> symbol.type \o <<":", " ">> \o symbol.name]

\* The keyword, built-in function and system module items, in push order.
fixedItems ==
  [i \in 1..Len(KEYWORDS) |-> keywordItem(KEYWORDS[i])]
  \o [i \in 1..Len(BUILTIN_FUNCTIONS) |-> builtinItem(BUILTIN_FUNCTIONS[i])]
  \o [i \in 1..Len(SYSTEM_MODULES) |-> moduleItem(SYSTEM_MODULES[i])]

\* The items of the document's symbols, none when the store has no entry.
symbolItems(uri) ==
  IF uri \in DOMAIN documentInfos
    THEN [i \in 1..Len(documentInfos[uri].symbols) |->
            symbolItem(documentInfos[uri].symbols[i])]
    ELSE <<>>

\* onCompletion returning early, with nothing, for a document the store
\* does not know.
onCompletionKnownOnly(params) ==
  IF params.textDocument.uri \notin DOMAIN documentInfos
    THEN <<>>
    ELSE fixedItems \o symbolItems(params.textDocument.uri)

onCompletion(params) == fixedItems \o symbolItems(params.textDocument.uri)

onCompletionResolve(item) == item

\* The Hover literal the three branches of onHover build.
hoverResult(value, position, wordRange) ==
  [contents |-> [kind |-> "markdown", value |-> value],
   range |-> [start |-> [line |-> position.line, character |-> wordRange.start],
              end   |-> [line |-> position.line, character |-> wordRange.end]]]

\* The three lookups of onHover with the document's symbol table consulted
\* before the built-in functions.
hoverLookupSymbolFirst(uri, word, position, wordRange) ==
  IF Includes(KEYWORDS, word)
    THEN hoverResult(<<"*","*">> \o word \o
           <<"*","*"," ","-"," ","A","s","t","e","r","o","i","d"," ","k","e","y","w","o","r","d">>,
           position, wordRange)
  ELSE IF uri \in DOMAIN documentInfos /\ MapHas(documentInfos[uri].symbols, word)
    THEN LET symbol == MapGet(documentInfos[uri].symbols, word)
         IN  hoverResult(<<"*","*">> \o symbol.name \o <<"*","*"," ","-"," ">> \o symbol.type,
                         position, wordRange)
  ELSE IF Includes(BUILTIN_FUNCTIONS, word)
    THEN hoverResult(<<"*","*">> \o word \o
           <<"(",")","*","*"," ","-"," ","B","u","i","l","t","-","i","n"," ","f","u","n","c","t","i","o","n">>,
           position, wordRange)
  ELSE undefined

\* The three lookups of onHover, in the order of the code: keywords,
\* built-in functions, the document's symbols.
hoverLookup(uri, word, position, wordRange) ==
  IF Includes(KEYWORDS, word)
    THEN hoverResult(<<"*","*">> \o word \o
           <<"*","*"," ","-"," ","A","s","t","e","r","o","i","d"," ","k","e","y","w","o","r","d">>,
           position, wordRange)
  ELSE IF Includes(BUILTIN_FUNCTIONS, word)
    THEN hoverResult(<<"*","*">> \o word \o
           <<"(",")","*","*"," ","-"," ","B","u","i","l","t","-","i","n"," ","f","u","n","c","t","i","o","n">>,
           position, wordRange)
  ELSE IF uri \in DOMAIN documentInfos /\ MapHas(documentInfos[uri].symbols, word)
    THEN LET symbol == MapGet(documentInfos[uri].symbols, word)
         IN  hoverResult(<<"*","*">> \o symbol.name \o <<"*","*"," ","-"," ">> \o symbol.type,
                         position, wordRange)
  ELSE undefined

onHover(params) ==
  LET uri      == params.textDocument.uri
      position == params.position
  IN  IF uri \notin DOMAIN documents THEN undefined
      ELSE LET lines == split(documents[uri].text)
           IN  IF position.line >= Len(lines) THEN undefined
               ELSE LET line      == lines[position.line + 1]
                        wordRange == getWordRangeAtPosition(line, position.character)
                    IN  IF wordRange = undefined THEN undefined
                        ELSE LET word == substring(line, wordRange.start, wordRange.end)
                             IN  hoverLookup(uri, word, position, wordRange)

\* onDefinition with the word looked up in the requesting document's table
\* and then in the tables of the other documents of the store.
onDefinitionAnyDocument(params) ==
  LET uri      == params.textDocument.uri
      position == params.position
  IN  IF uri \notin DOMAIN documents THEN undefined
      ELSE LET lines == split(documents[uri].text)
           IN  IF position.line >= Len(lines) THEN undefined
               ELSE LET line      == lines[position.line + 1]
                        wordRange == getWordRangeAtPosition(line, position.character)
                    IN  IF wordRange = undefined THEN undefined
                        ELSE LET word   == substring(line, wordRange.start, wordRange.end)
                                 owners == { v \in DOMAIN documentInfos :
                                               MapHas(documentInfos[v].symbols, word) }
                             IN  IF uri \in owners
                                   THEN [uri |-> uri,
                                         range |->
                                           MapGet(documentInfos[uri].symbols, word).range]
                                 ELSE IF owners # {}
                                   THEN LET v == CHOOSE v \in owners : TRUE
                                        IN  [uri |-> v,
                                             range |->
                                               MapGet(documentInfos[v].symbols, word).range]
                                 ELSE undefined

onDefinition(params) ==
  LET uri      == params.textDocument.uri
      position == params.position
  IN  IF uri \notin DOMAIN documents THEN undefined
      ELSE LET lines == split(documents[uri].text)
           IN  IF position.line >= Len(lines) THEN undefined
               ELSE LET line      == lines[position.line + 1]
                        wordRange == getWordRangeAtPosition(line, position.character)
                    IN  IF wordRange = undefined THEN undefined
                        ELSE LET word == substring(line, wordRange.start, wordRange.end)
                             IN  IF /\ uri \in DOMAIN documentInfos
                                    /\ MapHas(documentInfos[uri].symbols, word)
                                   THEN [uri |-> uri,
                                         range |->
                                           MapGet(documentInfos[uri].symbols, word).range]
                                   ELSE undefined

onDocumentSymbol(params) ==
  LET uri == params.textDocument.uri
  IN  IF uri \notin DOMAIN documentInfos THEN <<>>
      ELSE [i \in 1..Len(documentInfos[uri].symbols) |->
              LET symbol == documentInfos[uri].symbols[i]
              IN  [name |-> symbol.name, kind |-> symbol.kind,
                   range |-> symbol.range, selectionRange |-> symbol.selectionRange,
                   detail |-> undefined]]

\* Bounds of the model: the length of a character-by-character text, the
\* number of edits of a document, and the cursor positions requests name.
MaxLexLen == 4

Init ==
  /\ documents = <<>>
  /\ documentInfos = <<>>
  /\ diagnostics = <<>>
  /\ sent = <<>>
  /\ response = NoResponse

\* analyzeDocument with the parser filling the document's previous entry
\* instead of a fresh one.
analyzeDocumentMerging(uri, text) ==
  LET tokens == tokenize(text)
      start  == IF uri \in DOMAIN documentInfos THEN documentInfos[uri]
                ELSE DocumentInfoNew
      info   == parseLoop(tokens, [pos |-> 0, info |-> start]).info
  IN  /\ documentInfos' = Put(documentInfos, uri, info)
      /\ diagnostics' = Put(diagnostics, uri, validateDocument(tokens))
      /\ sent' = << [uri |-> uri, diagnostics |-> validateDocument(tokens)] >>

\* analyzeDocument that publishes only when the list of diagnostics is not
\* empty.
analyzeDocumentSilentWhenClean(uri, text) ==
  LET tokens == tokenize(text)
      info   == parse(tokens)
  IN  /\ documentInfos' = Put(documentInfos, uri, info)
      /\ diagnostics' = Put(diagnostics, uri, validateDocument(tokens))
      /\ sent' = IF validateDocument(tokens) = <<>> THEN <<>>
                 ELSE << [uri |-> uri, diagnostics |-> validateDocument(tokens)] >>

\* analyzeDocument that fills the store only for a document without an
\* entry: a later change publishes new diagnostics over an old table.
analyzeDocumentKeepEntry(uri, text) ==
  LET tokens == tokenize(text)
      info   == parse(tokens)
  IN  /\ documentInfos' = IF uri \in DOMAIN documentInfos THEN documentInfos
                          ELSE Put(documentInfos, uri, info)
      /\ diagnostics' = Put(diagnostics, uri, validateDocument(tokens))
      /\ sent' = << [uri |-> uri, diagnostics |-> validateDocument(tokens)] >>

\* analyzeDocument(textDocument), run by documents.onDidChangeContent.
analyzeDocument(uri, text) ==
  LET tokens == tokenize(text)
      info   == parse(tokens)
  IN  /\ documentInfos' = Put(documentInfos, uri, info)
      /\ diagnostics' = Put(diagnostics, uri, validateDocument(tokens))
      /\ sent' = << [uri |-> uri, diagnostics |-> validateDocument(tokens)] >>

\* textDocument/didOpen: the manager stores the document and fires
\* onDidChangeContent.
DidOpen(uri, text) ==
  /\ response = NoResponse
  /\ uri \notin DOMAIN documents
  /\ documents' = Put(documents, uri, [text |-> text, version |-> 1])
  /\ analyzeDocument(uri, text)
  /\ response' = NoResponse

\* textDocument/didChange: the manager applies the edit (here: typed is
\* appended at the end of the text) and fires onDidChangeContent.
DidChange(uri, typed, maxVersion) ==
  /\ response = NoResponse
  /\ uri \in DOMAIN documents
  /\ documents[uri].version < maxVersion
  /\ LET text == documents[uri].text \o typed
     IN  /\ documents' = Put(documents, uri,
                             [text |-> text, version |-> documents[uri].version + 1])
         /\ analyzeDocument(uri, text)
  /\ response' = NoResponse

(***************************************************************************)
(* The lexical session: one document typed character by character.         *)
(***************************************************************************)
LexUri == "file:///a.ast"

LexChars == { " ", "\n", "%", "\"", "'", "\\", "a", "1", ".", "=" }

LexOpen == DidOpen(LexUri, <<>>)

LexType == \E c \in LexChars : DidChange(LexUri, <<c>>, MaxLexLen + 1)

LexNext == LexOpen \/ LexType

SpecLex == Init /\ [][LexNext]_vars

(***************************************************************************)
(* The operator session: one document typed character by character over   *)
(* the characters of the two-character operators.                          *)
(***************************************************************************)
MaxOpLen == 4

OpUri == "file:///a.ast"

OpChars == { "=", "!", "<", ">", "-", "a", " " }

OpOpen == DidOpen(OpUri, <<>>)

OpType == \E c \in OpChars : DidChange(OpUri, <<c>>, MaxOpLen + 1)

OpNext == OpOpen \/ OpType

SpecOp == Init /\ [][OpNext]_vars

(***************************************************************************)
(* The declaration session: one document typed word by word, each word     *)
(* followed by a space, and newlines.                                      *)
(***************************************************************************)
MaxDeclEdits == 4

DeclUri == "file:///a.ast"

DeclChunks ==
  { <<"l","e","t"," ">>,
    <<"f","u","n","c","t","i","o","n"," ">>,
    <<"s","t","r","u","c","t"," ">>,
    <<"d","a","t","a"," ">>,
    <<"l","o","a","d"," ">>,
    <<"s","y","s","t","e","m"," ">>,
    <<"x"," ">>,
    <<"f"," ">>,
    <<"\n">> }

DeclOpen == DidOpen(DeclUri, <<>>)

DeclType == \E c \in DeclChunks : DidChange(DeclUri, c, MaxDeclEdits + 1)

DeclNext == DeclOpen \/ DeclType

SpecDecl == Init /\ [][DeclNext]_vars

(***************************************************************************)
(* The editing session: two documents, open, change, close and the four    *)
(* requests.  UriA is opened empty or with a function declaration and is   *)
(* typed word by word; UriB is opened with a declaration of the same name  *)
(* by another keyword and is not edited.                                   *)
(***************************************************************************)
MaxEdits == 2

UriA == "file:///a.ast"

UriB == "file:///b.ast"

Uris == { UriA, UriB }

FunctionFoo ==
  <<"f","u","n","c","t","i","o","n"," ","f","o","o"," ","w","i","t","h"," ","n"," ","d","o"," ","e","n","d","\n">>

LetFoo ==
  <<"l","e","t"," ","f","o","o"," ","="," ","1","\n">>

\* A declaration of a built-in function's name, with a malformed number.
LetLen ==
  <<"l","e","t"," ","l","e","n"," ","="," ","1",".","2",".","3","\n">>

OpenTexts(uri) ==
  IF uri = UriA THEN { <<>>, FunctionFoo } ELSE { LetFoo \o LetLen }

Chunks ==
  { <<"f","u","n","c","t","i","o","n"," ">>,
    <<"l","e","t"," ">>,
    <<"f","o","o"," ">>,
    <<"f","o","o","1"," ">>,
    <<"\n">> }

\* The cursor positions a request on uri names: every position of the
\* document's text, one past the end of each line and one line past the
\* last; for a document that is not open, the first two of each.
Positions(uri) ==
  IF uri \in DOMAIN documents
    THEN LET lines == split(documents[uri].text)
         IN  UNION { { [line |-> l, character |-> c] :
                         c \in 0..(IF l < Len(lines) THEN Len(lines[l + 1]) ELSE 0) } :
                     l \in 0..Len(lines) }
    ELSE { [line |-> l, character |-> c] : l \in 0..1, c \in 0..1 }

Params(uri, position) == [textDocument |-> [uri |-> uri], position |-> position]

Open == \E uri \in Uris : \E text \in OpenTexts(uri) : DidOpen(uri, text)

Type == \E c \in Chunks : DidChange(UriA, c, MaxEdits + 1)

\* A didClose that also drops the document's store entry.
CloseEvicting ==
  \E uri \in DOMAIN documents :
    /\ response = NoResponse
    /\ documents' = Remove(documents, uri)
    /\ documentInfos' = Remove(documentInfos, uri)
    /\ sent' = <<>>
    /\ response' = NoResponse
    /\ UNCHANGED diagnostics

\* textDocument/didClose: the manager drops the document; the server has no
\* handler for it.
Close ==
  \E uri \in DOMAIN documents :
    /\ response = NoResponse
    /\ documents' = Remove(documents, uri)
    /\ sent' = <<>>
    /\ response' = NoResponse
    /\ UNCHANGED <<documentInfos, diagnostics>>

\* A request whose handler creates an empty store entry for a document the
\* store does not hold.
RequestLazyEntry(op, params, result) ==
  /\ response = NoResponse
  /\ response' = [op |-> op, params |-> params, result |-> result]
  /\ sent' = <<>>
  /\ documentInfos' =
       IF op # "completionResolve" /\ params.textDocument.uri \notin DOMAIN documentInfos
         THEN Put(documentInfos, params.textDocument.uri, DocumentInfoNew)
         ELSE documentInfos
  /\ UNCHANGED <<documents, diagnostics>>

\* A request: the handler's return value is the response; nothing is sent
\* and no state is written.
Request(op, params, result) ==
  /\ response = NoResponse
  /\ response' = [op |-> op, params |-> params, result |-> result]
  /\ sent' = <<>>
  /\ UNCHANGED <<documents, documentInfos, diagnostics>>

\* onCompletion does not read the position: the requests name the
\* positions of the first two columns of the first two lines.
Completion ==
  \E uri \in Uris :
    \E position \in { q \in Positions(uri) : q.line <= 1 /\ q.character <= 1 } :
      Request("completion", Params(uri, position),
              onCompletion(Params(uri, position)))

Hover ==
  \E uri \in Uris : \E position \in Positions(uri) :
    Request("hover", Params(uri, position), onHover(Params(uri, position)))

Definition ==
  \E uri \in Uris : \E position \in Positions(uri) :
    Request("definition", Params(uri, position), onDefinition(Params(uri, position)))

\* completionItem/resolve names an item of an earlier completion: the
\* first keyword item or an item of a symbol of the store.
CompletionResolve ==
  \E uri \in Uris : \E item \in {fixedItems[1]} \cup Elems(symbolItems(uri)) :
    Request("completionResolve", item, onCompletionResolve(item))

DocumentSymbol ==
  \E uri \in Uris :
    Request("documentSymbol", [textDocument |-> [uri |-> uri]],
            onDocumentSymbol([textDocument |-> [uri |-> uri]]))

\* The connection writes the reply out.
Reply ==
  /\ response # NoResponse
  /\ response' = NoResponse
  /\ UNCHANGED <<documents, documentInfos, diagnostics, sent>>

Next ==
  \/ Open \/ Type \/ Close
  \/ Completion \/ CompletionResolve \/ Hover \/ Definition \/ DocumentSymbol
  \/ Reply

Spec == Init /\ [][Next]_vars

(***************************************************************************)
(* The malformed-declaration session: one document, opened empty or with   *)
(* an import, a function and a variable declaration, into which            *)
(* declaration keywords, tokens of every other type and a redeclaration    *)
(* are typed, and whose outline is requested.                              *)
(***************************************************************************)
MaxFollowEdits == 3

FollowUri == "file:///a.ast"

Prelude ==
  <<"l","o","a","d"," ","s","y","s","t","e","m"," ","m","\n","f","u","n","c","t","i","o","n"," ","x","\n","l","e","t"," ","f","\n">>

FollowChunks ==
  { <<"l","e","t"," ">>,
    <<"f","u","n","c","t","i","o","n"," ">>,
    <<"s","t","r","u","c","t"," ">>,
    <<"d","a","t","a"," ">>,
    <<"w","i","t","h"," ">>,
    <<"@"," ">>,
    <<"1"," ">>,
    <<"'","s","'"," ">>,
    <<"=","="," ">>,
    <<"="," ">>,
    <<"1",".","2",".","3"," ">>,
    <<"\"","\\">>,
    <<"\n","l","e","t"," ","x"," ">> }

FollowOpen == \E text \in { <<>>, Prelude } : DidOpen(FollowUri, text)

FollowType == \E c \in FollowChunks : DidChange(FollowUri, c, MaxFollowEdits + 1)

FollowOutline ==
  Request("documentSymbol", [textDocument |-> [uri |-> FollowUri]],
          onDocumentSymbol([textDocument |-> [uri |-> FollowUri]]))

FollowNext == FollowOpen \/ FollowType \/ FollowOutline \/ Reply

SpecFollow == Init /\ [][FollowNext]_vars

(***************************************************************************)
(* Reference notions the properties are stated with.  They are written     *)
(* from the text alone, not from the lexer.                                *)
(***************************************************************************)
\* The 0-based offset in text of the position (line, column).
OffsetOf(text, line, column) ==
  (IF line = 0
     THEN 0
     ELSE CHOOSE p \in 1..Len(text) :
            /\ text[p] = "\n"
            /\ Cardinality({ q \in 1..p : text[q] = "\n" }) = line)
  + column

\* The character at 0-based offset off lies in a line comment: a '%' stands
\* at or before it on its line.
InComment(text, off) ==
  \E p \in 1..(off + 1) :
    /\ text[p] = "%"
    /\ \A q \in p..(off + 1) : text[q] # "\n"

HasQuote(text) == \E p \in 1..Len(text) : text[p] \in { "\"", "'" }

RECURSIVE ClosingQuote(_, _, _)
\* The index of the first unescaped quote at or after index i on the line of
\* i, 0 when the line or the text ends before one (indices 1-based).
ClosingQuote(text, quote, i) ==
  IF i > Len(text) \/ text[i] = "\n" THEN 0
  ELSE IF text[i] = quote THEN i
  ELSE IF text[i] = "\\"
    THEN IF i + 1 > Len(text) \/ text[i + 1] = "\n"
           THEN 0
           ELSE ClosingQuote(text, quote, i + 2)
  ELSE ClosingQuote(text, quote, i + 1)

RECURSIVE Unescaped(_)
\* content with each backslash removed and the character after it kept.
Unescaped(content) ==
  IF content = <<>> THEN <<>>
  ELSE IF content[1] = "\\" /\ Len(content) >= 2
    THEN <<content[2]>> \o Unescaped(SubSeq(content, 3, Len(content)))
  ELSE IF content[1] = "\\" THEN <<>>
  ELSE <<content[1]>> \o Unescaped(Tail(content))

\* digits ('.' digits)?
StrictNumber(value) ==
  \E n \in 1..Len(value) :
    /\ \A i \in 1..n : IsDigit(value[i])
    /\ \/ n = Len(value)
       \/ /\ n + 2 <= Len(value)
          /\ value[n + 1] = "."
          /\ \A i \in (n + 2)..Len(value) : IsDigit(value[i])

\* The 1-based index in text of the first character of token.
TokenIndex(text, token) == OffsetOf(text, token.line, token.column) + 1

(***************************************************************************)
(* C1.  tokenize emits no token for white space or for a line comment: no  *)
(* token other than a string has a white space character in its text (in   *)
(* particular the newline that ends a comment line), and in a text without *)
(* quotes no token starts inside a comment.                                *)
(* Violated by the code: skipComment stops before the newline and the      *)
(* token branch that follows pushes it as PUNCTUATION.                     *)
(***************************************************************************)
C1_NoWhitespaceOrCommentToken ==
  \A u \in DOMAIN documents :
    LET text == documents[u].text
        toks == tokenize(text)
    IN  \A i \in 1..Len(toks) :
          /\ toks[i].type # "STRING" =>
               \A k \in 1..Len(toks[i].value) : toks[i].value[k] \notin Whitespace
          /\ ~HasQuote(text) =>
               ~InComment(text, OffsetOf(text, toks[i].line, toks[i].column))

(***************************************************************************)
(* C2.  A string literal whose opening quote has no matching unescaped     *)
(* closing quote before the end of its line gives a STRING token with      *)
(* valid = false and exactly one 'Unterminated string literal' diagnostic  *)
(* starting at the token's line and column, also when a quote of the same  *)
(* kind stands on a later line.                                            *)
(* Violated by the code: readString scans across newlines.                 *)
(***************************************************************************)
C2_UnterminatedOnLine ==
  \A u \in DOMAIN documents :
    LET text == documents[u].text
        toks == tokenize(text)
        diag == diagnostics[u]
    IN  \A i \in 1..Len(toks) :
          (/\ toks[i].type = "STRING"
           /\ ClosingQuote(text, text[TokenIndex(text, toks[i])],
                           TokenIndex(text, toks[i]) + 1) = 0)
          => /\ toks[i].valid = FALSE
             /\ Cardinality({ k \in 1..Len(diag) :
                  /\ diag[k].message = "Unterminated string literal"
                  /\ diag[k].range.start =
                       [line |-> toks[i].line, character |-> toks[i].column] }) = 1

(***************************************************************************)
(* C3.  A string literal whose matching closing quote is on the same line  *)
(* gives a STRING token with valid = true whose value is the content       *)
(* between the quotes with each backslash removed and the character after  *)
(* it kept as it is; an escaped quote does not end the literal.            *)
(***************************************************************************)
C3_TerminatedString ==
  \A u \in DOMAIN documents :
    LET text == documents[u].text
        toks == tokenize(text)
    IN  \A i \in 1..Len(toks) :
          LET p == TokenIndex(text, toks[i])
              e == ClosingQuote(text, text[p], p + 1)
          IN  (toks[i].type = "STRING" /\ e # 0)
              => /\ toks[i].valid = TRUE
                 /\ toks[i].value = Unescaped(SubSeq(text, p + 1, e - 1))

\* C3's case: a terminated literal that holds an escaped quote of its own kind.
C3_Witness ==
  \E u \in DOMAIN documents :
    LET text == documents[u].text
        toks == tokenize(text)
    IN  \E i \in 1..Len(toks) :
          /\ toks[i].type = "STRING"
          /\ toks[i].valid = TRUE
          /\ \E k \in 1..Len(toks[i].value) :
               toks[i].value[k] = text[TokenIndex(text, toks[i])]

(***************************************************************************)
(* C4.  validateDocument reports 'Invalid number format' (severity Error,  *)
(* range on the token's line from its column to column + length) for a     *)
(* NUMBER token exactly when its text is not digits ('.' digits)?, so that *)
(* '1.' is reported.                                                       *)
(* Violated by the code: /^\d+\.?\d*$/ accepts a trailing dot.             *)
(***************************************************************************)
C4_InvalidNumberIffNotStrict ==
  \A u \in DOMAIN documents :
    LET toks == tokenize(documents[u].text)
        diag == diagnostics[u]
    IN  \A i \in 1..Len(toks) :
          toks[i].type = "NUMBER" =>
            ( (\E k \in 1..Len(diag) :
                 /\ diag[k].message = "Invalid number format"
                 /\ diag[k].severity = "Error"
                 /\ diag[k].range =
                      [start |-> [line |-> toks[i].line, character |-> toks[i].column],
                       end   |-> [line |-> toks[i].line,
                                  character |-> toks[i].column + Len(toks[i].value)]])
              <=> ~StrictNumber(toks[i].value) )

(***************************************************************************)
(* Reference notions for the extractor, written from the token sequence.   *)
(***************************************************************************)
DeclKeywords ==
  { <<"f","u","n","c","t","i","o","n">>, <<"l","e","t">>,
    <<"s","t","r","u","c","t">>, <<"d","a","t","a">> }

\* The indices of the declarations of toks: a declaration keyword token
\* immediately followed by an identifier token.
Declarations(toks) ==
  { i \in 1..(Len(toks) - 1) :
      /\ toks[i].type = "KEYWORD"
      /\ toks[i].value \in DeclKeywords
      /\ toks[i + 1].type = "IDENTIFIER" }

\* The declarations of name among the indices decls.
DeclarationsOf(toks, decls, name) == { i \in decls : toks[i + 1].value = name }

Last(indices) == CHOOSE i \in indices : \A j \in indices : j <= i

\* The range from the start of the keyword token to the end of the
\* identifier token that follows it.
KeywordToNameEnd(toks, i) ==
  [start |-> [line |-> toks[i].line, character |-> toks[i].column],
   end   |-> [line |-> toks[i + 1].line,
              character |-> toks[i + 1].column + Len(toks[i + 1].value)]]

\* The symbol the declaration at index i stands for.
DeclaredSymbol(toks, i) ==
  [name |-> toks[i + 1].value,
   kind |-> CASE toks[i].value = <<"f","u","n","c","t","i","o","n">> -> "Function"
              [] toks[i].value = <<"l","e","t">> -> "Variable"
              [] OTHER -> "Struct",
   range |-> KeywordToNameEnd(toks, i),
   selectionRange |-> KeywordToNameEnd(toks, i),
   type |-> CASE toks[i].value = <<"f","u","n","c","t","i","o","n">> ->
                   <<"f","u","n","c","t","i","o","n">>
              [] toks[i].value = <<"l","e","t">> -> <<"v","a","r","i","a","b","l","e">>
              [] OTHER -> toks[i].value]

\* The documents that are open and analysed.
Analysed == (DOMAIN documents) \cap (DOMAIN documentInfos)

(***************************************************************************)
(* C5.  After extraction the main symbol table holds at most one symbol    *)
(* per name, and the symbol under a name is the one the last declaration   *)
(* of that name in token order builds, whatever the keywords of the        *)
(* earlier and the later declarations.                                     *)
(***************************************************************************)
C5_LastDeclarationWins ==
  \A u \in Analysed :
    LET toks  == tokenize(documents[u].text)
        decls == Declarations(toks)
        table == documentInfos[u].symbols
    IN  /\ \A i, j \in 1..Len(table) : table[i].name = table[j].name => i = j
        /\ \A i \in decls :
             LET name == toks[i + 1].value
             IN  /\ MapHas(table, name)
                 /\ MapGet(table, name) =
                      DeclaredSymbol(toks, Last(DeclarationsOf(toks, decls, name)))

\* C5's case: `let x` twice; the entry carries the second declaration's range.
C5_Witness ==
  \E u \in Analysed :
    LET toks  == tokenize(documents[u].text)
        decls == Declarations(toks)
        table == documentInfos[u].symbols
    IN  \E i, j \in decls :
          /\ i < j
          /\ toks[i].value = <<"l","e","t">> /\ toks[j].value = <<"l","e","t">>
          /\ toks[i + 1].value = <<"x">> /\ toks[j + 1].value = <<"x">>
          /\ Len(table) = 1
          /\ table[1].range = KeywordToNameEnd(toks, j)
          /\ table[1].range # KeywordToNameEnd(toks, i)

(***************************************************************************)
(* C6.  After extraction the functions and variables sub-maps mirror the   *)
(* main table: every entry of a sub-map is the symbol the main table holds *)
(* under that name and has the sub-map's kind, and every Function          *)
(* (Variable) symbol of the main table is in the functions (variables)     *)
(* sub-map, also when a name is declared with one keyword and later with   *)
(* another.                                                                *)
(* Violated by the code: a later declaration of another kind overwrites    *)
(* the main table's entry and leaves the sub-map's entry behind.           *)
(***************************************************************************)
C6_SubMapsMirrorMainTable ==
  \A u \in DOMAIN documentInfos :
    LET info == documentInfos[u]
    IN  /\ \A i \in 1..Len(info.functions) :
             /\ info.functions[i].kind = "Function"
             /\ MapHas(info.symbols, info.functions[i].name)
             /\ MapGet(info.symbols, info.functions[i].name) = info.functions[i]
        /\ \A i \in 1..Len(info.variables) :
             /\ info.variables[i].kind = "Variable"
             /\ MapHas(info.symbols, info.variables[i].name)
             /\ MapGet(info.symbols, info.variables[i].name) = info.variables[i]
        /\ \A i \in 1..Len(info.symbols) :
             /\ info.symbols[i].kind = "Function" =>
                  /\ MapHas(info.functions, info.symbols[i].name)
                  /\ MapGet(info.functions, info.symbols[i].name) = info.symbols[i]
             /\ info.symbols[i].kind = "Variable" =>
                  /\ MapHas(info.variables, info.symbols[i].name)
                  /\ MapGet(info.variables, info.symbols[i].name) = info.symbols[i]

(***************************************************************************)
(* C8.  The range of every recorded symbol starts at the line and column   *)
(* of the keyword token of its declaration and ends on the identifier      *)
(* token's line at its column plus the length of the name; with the        *)
(* identifier on a later line than the keyword the range spans the lines.  *)
(* The main table is read for every declaration keyword, the functions     *)
(* sub-map for `function` and the variables sub-map for `let`.             *)
(***************************************************************************)
C8_RangeFromKeywordToNameEnd ==
  \A u \in Analysed :
    LET toks  == tokenize(documents[u].text)
        decls == Declarations(toks)
        info  == documentInfos[u]
        OfKeyword(kw) == { i \in decls : toks[i].value = kw }
        RangesOf(map, among) ==
          /\ \A k \in 1..Len(map) :
               /\ DeclarationsOf(toks, among, map[k].name) # {}
               /\ LET i == Last(DeclarationsOf(toks, among, map[k].name))
                  IN  /\ map[k].range.start =
                           [line |-> toks[i].line, character |-> toks[i].column]
                      /\ map[k].range.end =
                           [line |-> toks[i + 1].line,
                            character |-> toks[i + 1].column + Len(map[k].name)]
                      /\ map[k].selectionRange = map[k].range
          /\ \A i \in among : MapHas(map, toks[i + 1].value)
    IN  /\ RangesOf(info.symbols, decls)
        /\ RangesOf(info.functions, OfKeyword(<<"f","u","n","c","t","i","o","n">>))
        /\ RangesOf(info.variables, OfKeyword(<<"l","e","t">>))

\* C8's case: a recorded symbol whose identifier is on a later line than its
\* keyword.
C8_Witness ==
  \E u \in Analysed :
    \E k \in 1..Len(documentInfos[u].symbols) :
      LET symbol == documentInfos[u].symbols[k]
      IN  /\ symbol.range.start.line < symbol.range.end.line
          /\ symbol.range.end.character = Len(symbol.name)

(***************************************************************************)
(* Reference notions for the requests.                                     *)
(***************************************************************************)
Foo == <<"f","o","o">>

FunctionKeyword == <<"f","u","n","c","t","i","o","n">>

\* The start and the end of the maximal run of word characters of line that
\* holds the word character at 0-based offset c.
RunStart(line, c) ==
  CHOOSE s \in 0..c :
    /\ \A k \in s..c : IsWordChar(line[k + 1])
    /\ s = 0 \/ ~IsWordChar(line[s])

RunEnd(line, c) ==
  CHOOSE e \in (c + 1)..Len(line) :
    /\ \A k \in c..(e - 1) : IsWordChar(line[k + 1])
    /\ e = Len(line) \/ ~IsWordChar(line[e + 1])

\* position lies on a word character of the document's text.
OnWordChar(text, position) ==
  /\ position.line < Len(split(text))
  /\ position.character < Len(split(text)[position.line + 1])
  /\ IsWordChar(split(text)[position.line + 1][position.character + 1])

\* The word of text that holds the word character at position.
WordAt(text, position) ==
  LET line == split(text)[position.line + 1]
  IN  SubSeq(line, RunStart(line, position.character) + 1,
             RunEnd(line, position.character))

\* The range of that word, on the line of position.
WordRangeAt(text, position) ==
  LET line == split(text)[position.line + 1]
  IN  [start |-> [line |-> position.line,
                  character |-> RunStart(line, position.character)],
       end   |-> [line |-> position.line,
                  character |-> RunEnd(line, position.character)]]

\* The request the pending reply answers is op on uri.
Answered(op, uri) ==
  /\ response.op = op
  /\ response.params.textDocument.uri = uri

\* What the requests return on foo in document u whose table holds symbol
\* under foo: hover its description, definition its range in u, completion
\* an item labelled foo.
FooResolved(u, symbol) ==
  /\ (/\ Answered("hover", u)
      /\ OnWordChar(documents[u].text, response.params.position)
      /\ WordAt(documents[u].text, response.params.position) = Foo)
     => /\ response.result # undefined
        /\ response.result.contents.value =
             <<"*","*">> \o Foo \o <<"*","*"," ","-"," ">> \o symbol.type
        /\ response.result.range =
             WordRangeAt(documents[u].text, response.params.position)
  /\ (/\ Answered("definition", u)
      /\ OnWordChar(documents[u].text, response.params.position)
      /\ WordAt(documents[u].text, response.params.position) = Foo)
     => response.result = [uri |-> u, range |-> symbol.range]
  /\ Answered("completion", u)
     => \E k \in 1..Len(response.result) :
          /\ response.result[k].label = Foo
          /\ response.result[k].detail = symbol.type \o <<":", " ">> \o Foo

(***************************************************************************)
(* C7 as stated.  After a document that contains `function foo with n do   *)
(* ... end` has been analysed, its table maps foo to a symbol of kind      *)
(* Function whose range ends just past the `foo` of that declaration;      *)
(* hover inside an occurrence of foo describes it, definition returns its  *)
(* range in the same document and completion has an item labelled foo.     *)
(* Violated when a `let`, `struct` or `data` declaration of foo follows:   *)
(* the table then holds that later symbol.                                 *)
(***************************************************************************)
C7_ContainsFunctionFoo ==
  \A u \in Analysed :
    LET toks     == tokenize(documents[u].text)
        fooDecls == DeclarationsOf(toks, Declarations(toks), Foo)
        fooFuncs == { i \in fooDecls : toks[i].value = FunctionKeyword }
        table    == documentInfos[u].symbols
    IN  fooFuncs # {} =>
          /\ MapHas(table, Foo)
          /\ MapGet(table, Foo).kind = "Function"
          /\ \E i \in fooFuncs :
               MapGet(table, Foo).range.end =
                 [line |-> toks[i + 1].line, character |-> toks[i + 1].column + Len(Foo)]
          /\ FooResolved(u, MapGet(table, Foo))

(***************************************************************************)
(* C7 as amended.  After a document whose tokens hold the keyword          *)
(* `function` immediately followed by the identifier foo, with no later    *)
(* declaration of foo by another keyword, has been analysed, its table     *)
(* maps foo to a symbol of kind Function whose range ends just past the    *)
(* `foo` of the last such declaration; hover at any offset inside an       *)
(* occurrence of foo returns the description of foo and the word's range,  *)
(* definition there returns that symbol's range in the same document, and  *)
(* completion returns an item labelled foo.                                *)
(***************************************************************************)
C7_LastFunctionFooResolved ==
  \A u \in Analysed :
    LET toks     == tokenize(documents[u].text)
        fooDecls == DeclarationsOf(toks, Declarations(toks), Foo)
        table    == documentInfos[u].symbols
    IN  (fooDecls # {} /\ toks[Last(fooDecls)].value = FunctionKeyword) =>
          /\ MapHas(table, Foo)
          /\ MapGet(table, Foo).kind = "Function"
          /\ MapGet(table, Foo).range.end =
               [line |-> toks[Last(fooDecls) + 1].line,
                character |-> toks[Last(fooDecls) + 1].column + Len(Foo)]
          /\ MapGet(table, Foo).type = FunctionKeyword
          /\ FooResolved(u, MapGet(table, Foo))

\* C7's case: a hover strictly inside an occurrence of foo, in a document
\* whose last declaration of foo is `function foo`, has been answered.
C7_Witness ==
  \E u \in Analysed :
    LET toks     == tokenize(documents[u].text)
        fooDecls == DeclarationsOf(toks, Declarations(toks), Foo)
    IN  /\ fooDecls # {}
        /\ toks[Last(fooDecls)].value = FunctionKeyword
        /\ Answered("hover", u)
        /\ OnWordChar(documents[u].text, response.params.position)
        /\ WordAt(documents[u].text, response.params.position) = Foo
        /\ response.result # undefined
        /\ response.result.range.start.character < response.params.position.character

(***************************************************************************)
(* C9.  Every completion request, for a document the store knows or not    *)
(* and for any cursor position, returns one item for every keyword, every  *)
(* built-in function and every system module plus one item per symbol of  *)
(* the document's table; the list is at least as long as the three fixed   *)
(* lists together, and the result is the same for every cursor position.   *)
(***************************************************************************)
C9_CompletionItems ==
  response.op = "completion" =>
    LET uri    == response.params.textDocument.uri
        result == response.result
        table  == IF uri \in DOMAIN documentInfos
                    THEN documentInfos[uri].symbols ELSE <<>>
        fixed  == Len(KEYWORDS) + Len(BUILTIN_FUNCTIONS) + Len(SYSTEM_MODULES)
        Items(kind, label) ==
          { k \in 1..Len(result) : result[k].kind = kind /\ result[k].label = label }
    IN  /\ Len(result) >= fixed
        /\ Len(result) = fixed + Len(table)
        /\ \A i \in 1..Len(KEYWORDS) : Items("Keyword", KEYWORDS[i]) # {}
        /\ \A i \in 1..Len(BUILTIN_FUNCTIONS) :
             Items("Function", BUILTIN_FUNCTIONS[i]) # {}
        /\ \A i \in 1..Len(SYSTEM_MODULES) : Items("Module", SYSTEM_MODULES[i]) # {}
        /\ \A i \in 1..Len(table) :
             \E k \in (fixed + 1)..Len(result) :
               /\ result[k].label = table[i].name
               /\ result[k].detail = table[i].type \o <<":", " ">> \o table[i].name
        /\ \A position \in Positions(uri) :
             onCompletion(Params(uri, position)) = result

\* C9's cases: a completion answered for a document the store does not
\* know, at a position other than the origin.
C9_Witness ==
  /\ response.op = "completion"
  /\ response.params.textDocument.uri \notin DOMAIN documentInfos
  /\ response.params.position.line > 0
  /\ \E u \in DOMAIN documentInfos : Len(documentInfos[u].symbols) > 0

(***************************************************************************)
(* C10.  For every line and every offset on a word character of it,        *)
(* getWordRangeAtPosition returns the maximal run of word characters that  *)
(* holds the offset: its start is 0 or follows a non-word character, its   *)
(* end is the line's length or is at a non-word character; never a proper  *)
(* part of the run.  A hover answered on a word character carries that     *)
(* range.                                                                  *)
(***************************************************************************)
C10_WholeWord ==
  /\ \A u \in DOMAIN documents :
       LET lines == split(documents[u].text)
       IN  \A l \in 1..Len(lines) :
             \A c \in 0..(Len(lines[l]) - 1) :
               IsWordChar(lines[l][c + 1]) =>
                 LET r == getWordRangeAtPosition(lines[l], c)
                 IN  /\ r # undefined
                     /\ r.start <= c /\ c < r.end /\ r.end <= Len(lines[l])
                     /\ \A k \in r.start..(r.end - 1) : IsWordChar(lines[l][k + 1])
                     /\ r.start = 0 \/ ~IsWordChar(lines[l][r.start])
                     /\ r.end = Len(lines[l]) \/ ~IsWordChar(lines[l][r.end + 1])
  /\ \A u \in DOMAIN documents :
       (/\ Answered("hover", u)
        /\ OnWordChar(documents[u].text, response.params.position)
        /\ response.result # undefined)
       => response.result.range =
            WordRangeAt(documents[u].text, response.params.position)

\* C10's case: a hover answered from an offset strictly inside a word that
\* holds a digit and has a declared word as a proper part.
C10_Witness ==
  \E u \in DOMAIN documents :
    /\ Answered("hover", u)
    /\ OnWordChar(documents[u].text, response.params.position)
    /\ response.result # undefined
    /\ WordAt(documents[u].text, response.params.position) = <<"f","o","o","1">>
    /\ response.result.range.start.character < response.params.position.character
    /\ response.params.position.character + 1 < response.result.range.end.character
    /\ MapHas(documentInfos[u].symbols, Foo)

(***************************************************************************)
(* Reference notions for imports, written from the token sequence.         *)
(***************************************************************************)
\* toks[i] is the keyword `load`.
IsLoad(toks, i) == toks[i].type = "KEYWORD" /\ toks[i].value = <<"l","o","a","d">>

\* The indices of the imports of toks: `load`, then the keyword `system`,
\* then an identifier.
Loads(toks) ==
  { i \in 1..(Len(toks) - 2) :
      /\ IsLoad(toks, i)
      /\ toks[i + 1].type = "KEYWORD"
      /\ toks[i + 1].value = <<"s","y","s","t","e","m">>
      /\ toks[i + 2].type = "IDENTIFIER" }

RECURSIVE ModulesFrom(_, _)
\* The module names of the imports at the indices i.. of toks, in order.
ModulesFrom(toks, i) ==
  IF i > Len(toks) THEN <<>>
  ELSE IF i \in Loads(toks) THEN <<toks[i + 2].value>> \o ModulesFrom(toks, i + 1)
  ELSE ModulesFrom(toks, i + 1)

\* The names the declarations of toks declare.
DeclaredNames(toks) == { toks[i + 1].value : i \in Declarations(toks) }

(***************************************************************************)
(* C11.  The import list of a document holds, in token order, the module   *)
(* name of every `load` that is immediately followed by the keyword        *)
(* `system` and then by an identifier, and nothing else; a `load`, of      *)
(* this form or not, puts no symbol in the table and no diagnostic at      *)
(* its position.                                                           *)
(***************************************************************************)
C11_ImportsExactlyLoadSystemName ==
  \A u \in Analysed :
    LET toks  == tokenize(documents[u].text)
        info  == documentInfos[u]
    IN  /\ info.imports = ModulesFrom(toks, 1)
        /\ MapKeys(info.symbols) \subseteq DeclaredNames(toks)
        /\ \A i \in 1..Len(toks) : \A k \in 1..Len(diagnostics[u]) :
             IsLoad(toks, i) =>
               diagnostics[u][k].range.start #
                 [line |-> toks[i].line, character |-> toks[i].column]

\* C11's case: a `load` that is not followed by `system`, then
\* `load system x`; the import list holds x alone and the table is empty.
C11_Witness ==
  \E u \in Analysed :
    LET toks == tokenize(documents[u].text)
    IN  /\ \E i \in 1..Len(toks) : IsLoad(toks, i) /\ i \notin Loads(toks)
        /\ Loads(toks) # {}
        /\ documentInfos[u].imports = << <<"x">> >>
        /\ documentInfos[u].symbols = MapNew

(***************************************************************************)
(* Reference notions for hover: the description of a word.                 *)
(***************************************************************************)
LenWord == <<"l","e","n">>

KeywordDescription(word) ==
  <<"*","*">> \o word \o
  <<"*","*"," ","-"," ","A","s","t","e","r","o","i","d"," ","k","e","y","w","o","r","d">>

BuiltinDescription(word) ==
  <<"*","*">> \o word \o
  <<"(",")","*","*"," ","-"," ","B","u","i","l","t","-","i","n"," ","f","u","n","c","t","i","o","n">>

SymbolDescription(symbol) ==
  <<"*","*">> \o symbol.name \o <<"*","*"," ","-"," ">> \o symbol.type

(***************************************************************************)
(* C12.  Hover on a word of an open document answers by the first of       *)
(* three sources that knows the word: the keyword list, then the list of   *)
(* built-in functions, then the document's symbol table.  A word that is   *)
(* a built-in function and a declared symbol gets the built-in             *)
(* description; a word none of the three knows gets no hover.              *)
(***************************************************************************)
C12_HoverPriority ==
  \A u \in Analysed :
    (Answered("hover", u) /\ OnWordChar(documents[u].text, response.params.position))
    => LET word  == WordAt(documents[u].text, response.params.position)
           table == documentInfos[u].symbols
           known == \/ word \in Elems(KEYWORDS)
                    \/ word \in Elems(BUILTIN_FUNCTIONS)
                    \/ word \in MapKeys(table)
       IN  /\ ~known <=> response.result = undefined
           /\ known =>
                /\ response.result.range =
                     WordRangeAt(documents[u].text, response.params.position)
                /\ response.result.contents.value =
                     IF word \in Elems(KEYWORDS) THEN KeywordDescription(word)
                     ELSE IF word \in Elems(BUILTIN_FUNCTIONS)
                       THEN BuiltinDescription(word)
                     ELSE SymbolDescription(MapGet(table, word))

\* C12's case: hover on `len` in a document that declares `let len`.
C12_Witness ==
  \E u \in Analysed :
    /\ Answered("hover", u)
    /\ OnWordChar(documents[u].text, response.params.position)
    /\ WordAt(documents[u].text, response.params.position) = LenWord
    /\ MapHas(documentInfos[u].symbols, LenWord)
    /\ response.result # undefined
    /\ response.result.contents.value = BuiltinDescription(LenWord)

(***************************************************************************)
(* C13.  Definition on a word of an open document returns the location    *)
(* made of the requesting document and the range of the symbol stored     *)
(* under that word when the word is a key of that document's table, a     *)
(* built-in function's name included, and nothing when it is not; an      *)
(* answer is never a location in another document, and a document that    *)
(* is not open gets nothing.                                              *)
(***************************************************************************)
C13_DefinitionInOwnTable ==
  \A u \in Uris :
    Answered("definition", u)
    => /\ u \notin DOMAIN documents => response.result = undefined
       /\ response.result # undefined
            => /\ response.result.uri = u
               /\ u \in Analysed
               /\ \E k \in 1..Len(documentInfos[u].symbols) :
                    response.result.range = documentInfos[u].symbols[k].range
       /\ (u \in Analysed /\ OnWordChar(documents[u].text, response.params.position))
            => LET word  == WordAt(documents[u].text, response.params.position)
                   table == documentInfos[u].symbols
               IN  response.result =
                     IF word \in MapKeys(table)
                       THEN [uri |-> u, range |-> MapGet(table, word).range]
                       ELSE undefined

\* C13's case: definition on `foo` in a document that does not declare it,
\* while the other document's table holds foo; the answer is nothing.
C13_Witness ==
  \E u, v \in Analysed :
    /\ u # v
    /\ Answered("definition", u)
    /\ OnWordChar(documents[u].text, response.params.position)
    /\ WordAt(documents[u].text, response.params.position) = Foo
    /\ ~MapHas(documentInfos[u].symbols, Foo)
    /\ MapHas(documentInfos[v].symbols, Foo)
    /\ response.result = undefined

\* Definition on `len`, a built-in function's name the document declares:
\* the answer is the declaration's range in that document.
C13_BuiltinNameResolved ==
  \E u \in Analysed :
    /\ Answered("definition", u)
    /\ OnWordChar(documents[u].text, response.params.position)
    /\ WordAt(documents[u].text, response.params.position) = LenWord
    /\ response.result =
         [uri |-> u, range |-> MapGet(documentInfos[u].symbols, LenWord).range]

(***************************************************************************)
(* Reference notions for requests that name no document or no place.       *)
(***************************************************************************)
\* The server knows nothing of u: it is not open and the store has no entry.
Unknown(u) == u \notin DOMAIN documents /\ u \notin DOMAIN documentInfos

\* position is not a character of text: its line is past the last line, or
\* its character is past the last character of its line.
Outside(text, position) ==
  \/ position.line >= Len(split(text))
  \/ position.character >= Len(split(text)[position.line + 1])

\* The request answered names a cursor position.
HasPosition == response.op \in {"completion", "hover", "definition"}

\* An empty or absent result.
Nothing == { undefined, <<>> }

(***************************************************************************)
(* C14 as stated.  Completion, hover, definition and document symbols      *)
(* each return an empty or absent result when the request names a document *)
(* the server does not know, or a cursor position outside the document's   *)
(* text.  Violated by completion, which returns the keyword, built-in and  *)
(* module items in both cases.                                             *)
(***************************************************************************)
C14_EveryProviderEmpty ==
  \A u \in Uris :
    \A op \in {"completion", "hover", "definition", "documentSymbol"} :
      Answered(op, u)
      => /\ Unknown(u) => response.result \in Nothing
         /\ (/\ HasPosition
             /\ u \in DOMAIN documents
             /\ Outside(documents[u].text, response.params.position))
            => response.result \in Nothing

(***************************************************************************)
(* C14 amended.  Hover and definition return nothing when the document is  *)
(* not open or the cursor position is outside its text, and document       *)
(* symbols returns the empty list when the store has no entry for the      *)
(* document.  Completion is never empty: for a document without a store    *)
(* entry it returns the keyword, built-in and module items alone, and a    *)
(* position outside the text changes nothing in its answer.                *)
(***************************************************************************)
C14_AbsentExceptCompletion ==
  \A u \in Uris :
    /\ \A op \in {"hover", "definition"} :
         Answered(op, u)
         => /\ u \notin DOMAIN documents => response.result = undefined
            /\ (/\ u \in DOMAIN documents
                /\ Outside(documents[u].text, response.params.position))
               => response.result = undefined
    /\ Answered("documentSymbol", u)
       => (u \notin DOMAIN documentInfos => response.result = <<>>)
    /\ Answered("completion", u)
       => /\ Len(response.result) >=
               Len(KEYWORDS) + Len(BUILTIN_FUNCTIONS) + Len(SYSTEM_MODULES)
          /\ u \notin DOMAIN documentInfos
               => Len(response.result) =
                    Len(KEYWORDS) + Len(BUILTIN_FUNCTIONS) + Len(SYSTEM_MODULES)
          /\ u \in DOMAIN documentInfos
               => Len(response.result) =
                    Len(KEYWORDS) + Len(BUILTIN_FUNCTIONS) + Len(SYSTEM_MODULES)
                      + Len(documentInfos[u].symbols)

\* C14's case: hover just past the end of a line that ends with a word.
C14_Witness ==
  \E u \in DOMAIN documents :
    LET position == response.params.position
        lines    == split(documents[u].text)
    IN  /\ Answered("hover", u)
        /\ position.line < Len(lines)
        /\ position.character = Len(lines[position.line + 1])
        /\ position.character > 0
        /\ IsWordChar(lines[position.line + 1][position.character])
        /\ response.result = undefined

(***************************************************************************)
(* Reference notions for requests: the handler of a request.               *)
(***************************************************************************)
Requests == {"completion", "completionResolve", "hover", "definition", "documentSymbol"}

HandlerResult(op, params) ==
  CASE op = "completion" -> onCompletion(params)
    [] op = "completionResolve" -> onCompletionResolve(params)
    [] op = "hover" -> onHover(params)
    [] op = "definition" -> onDefinition(params)
    [] op = "documentSymbol" -> onDocumentSymbol(params)

(***************************************************************************)
(* C15.  A completion, completion-resolve, hover, definition or            *)
(* document-symbol request changes neither the documents' texts nor the    *)
(* store (its keys, tables, sub-maps and import lists) nor the             *)
(* diagnostics; its result is the handler's value on the state it leaves   *)
(* as it found, so the same request made again right after it gets the     *)
(* same result.                                                            *)
(***************************************************************************)
C15_QueriesReadOnly ==
  [][ (response = NoResponse /\ response' # NoResponse)
      => /\ response'.op \in Requests
         /\ documents' = documents
         /\ documentInfos' = documentInfos
         /\ diagnostics' = diagnostics
         /\ response'.result = HandlerResult(response'.op, response'.params) ]_vars

\* C15's case: a resolve request for the item of foo has been answered
\* while the store holds foo.
C15_Witness ==
  /\ response.op = "completionResolve"
  /\ response.result.label = Foo
  /\ \E u \in DOMAIN documentInfos : MapHas(documentInfos[u].symbols, Foo)

(***************************************************************************)
(* Reference notions for events: the documents an event opens or changes.  *)
(***************************************************************************)
\* v is opened by the step, or its text or version is changed by it.
OpenedOrChanged(v) ==
  /\ v \in DOMAIN documents'
  /\ v \notin DOMAIN documents \/ documents'[v] # documents[v]

(***************************************************************************)
(* C16.  The analysis an open or change event runs replaces the            *)
(* document's store entry wholesale: the new entry is the extraction of    *)
(* the tokens of the current text alone, so its table holds declared       *)
(* names of that text only and its import list the imports of that text    *)
(* only; the entries of all other documents are as they were.              *)
(***************************************************************************)
C16_EntryReplacedWholesale ==
  [][ \A v \in Uris :
        OpenedOrChanged(v)
        => LET toks == tokenize(documents'[v].text)
           IN  /\ DOMAIN documentInfos' = (DOMAIN documentInfos) \cup {v}
               /\ documentInfos'[v] = parse(toks)
               /\ MapKeys(documentInfos'[v].symbols) = DeclaredNames(toks)
               /\ documentInfos'[v].imports = ModulesFrom(toks, 1)
               /\ \A u \in (DOMAIN documentInfos) \ {v} :
                    documentInfos'[u] = documentInfos[u] ]_vars

\* C16's case: the analysis of one document has just run and put foo as a
\* function in its entry, while the other document's entry holds foo as a
\* variable.
C16_Witness ==
  /\ sent # <<>>
  /\ \E v, u \in DOMAIN documentInfos :
       /\ v = sent[1].uri
       /\ u # v
       /\ MapHas(documentInfos[v].symbols, Foo)
       /\ MapGet(documentInfos[v].symbols, Foo).kind = "Function"
       /\ MapHas(documentInfos[u].symbols, Foo)
       /\ MapGet(documentInfos[u].symbols, Foo).kind = "Variable"

(***************************************************************************)
(* C17.  The key set of the store never shrinks: no open, change, close    *)
(* or request removes an entry, so a document that was analysed keeps its  *)
(* entry after it is closed.                                               *)
(***************************************************************************)
C17_StoreNeverShrinks ==
  [][ \A u \in DOMAIN documentInfos :
        /\ u \in DOMAIN documentInfos'
        /\ u \notin DOMAIN documents' => documentInfos'[u] = documentInfos[u] ]_vars

\* C17's case: a closed document whose entry, with its symbols, is still
\* in the store.
C17_Witness ==
  \E u \in DOMAIN documentInfos :
    /\ u \notin DOMAIN documents
    /\ documentInfos[u].symbols # MapNew

(***************************************************************************)
(* Reference notions for diagnostics: the tokens that are reported.        *)
(***************************************************************************)
\* The indices of the tokens of toks validateDocument reports: the string
\* tokens marked not valid and the number tokens the number pattern rejects.
Reported(toks) ==
  { i \in 1..Len(toks) :
      \/ toks[i].type = "STRING" /\ ~toks[i].valid
      \/ toks[i].type = "NUMBER" /\ ~NumberRegexTest(toks[i].value) }

(***************************************************************************)
(* C18.  Every open or change event publishes exactly one list of          *)
(* diagnostics, for the document of the event: the complete list           *)
(* validateDocument computes from the tokens of the current text, one      *)
(* entry per reported token and the empty list when there is none.  No     *)
(* other event publishes diagnostics.                                      *)
(***************************************************************************)
C18_OnePublicationPerAnalysis ==
  [][ /\ \A v \in Uris :
           OpenedOrChanged(v)
           => LET toks == tokenize(documents'[v].text)
              IN  /\ sent' = << [uri |-> v, diagnostics |-> validateDocument(toks)] >>
                  /\ Len(sent'[1].diagnostics) = Cardinality(Reported(toks))
                  /\ diagnostics'[v] = sent'[1].diagnostics
      /\ (\A v \in Uris : ~OpenedOrChanged(v))
           => sent' = <<>> /\ diagnostics' = diagnostics ]_vars

\* C18's case: the publication for a document with a malformed number has
\* just been sent, while the other document's list is empty.
C18_Witness ==
  /\ Len(sent) = 1
  /\ Len(sent[1].diagnostics) = 1
  /\ sent[1].diagnostics[1].message = "Invalid number format"
  /\ \E u \in DOMAIN diagnostics : u # sent[1].uri /\ diagnostics[u] = <<>>

(***************************************************************************)
(* C19.  Extraction is flat: every declaration keyword immediately         *)
(* followed by an identifier records a symbol, whatever precedes it, a     *)
(* `load` or a declaration keyword that recorded nothing included.  The    *)
(* table holds exactly one entry per declared name, the symbol of the      *)
(* last declaration of that name, and no entry that no declaration made.   *)
(***************************************************************************)
C19_FlatExtraction ==
  \A u \in Analysed :
    LET toks  == tokenize(documents[u].text)
        decls == Declarations(toks)
        table == documentInfos[u].symbols
    IN  /\ MapKeys(table) = DeclaredNames(toks)
        /\ Len(table) = Cardinality(DeclaredNames(toks))
        /\ \A k \in 1..Len(table) :
             table[k] =
               DeclaredSymbol(toks, Last(DeclarationsOf(toks, decls, table[k].name)))

\* C19's case: a declaration directly after a declaration keyword that
\* recorded nothing, itself directly after a `load` that imported nothing.
C19_Witness ==
  \E u \in Analysed :
    LET toks  == tokenize(documents[u].text)
        decls == Declarations(toks)
    IN  \E i \in decls :
          /\ i > 2
          /\ toks[i - 1].type = "KEYWORD" /\ toks[i - 1].value \in DeclKeywords
          /\ IsLoad(toks, i - 2)
          /\ MapHas(documentInfos[u].symbols, toks[i + 1].value)
          /\ documentInfos[u].imports = <<>>

(***************************************************************************)
(* Reference notions for malformed declarations.                           *)
(***************************************************************************)
\* The indices of the declaration keywords of toks that no identifier
\* follows: the keyword is the last token or the next token is of another
\* type.
Malformed(toks) ==
  { i \in 1..Len(toks) :
      /\ toks[i].type = "KEYWORD"
      /\ toks[i].value \in DeclKeywords
      /\ i = Len(toks) \/ toks[i + 1].type # "IDENTIFIER" }

RECURSIVE ParsedBefore(_, _, _)
\* The parser's position and DocumentInfo when its loop has consumed the
\* first n tokens, starting from p.
ParsedBefore(tokens, p, n) ==
  IF p.pos < n THEN ParsedBefore(tokens, parseStep(tokens, p), n) ELSE p

(***************************************************************************)
(* C20.  A declaration keyword that is the last token, or that is          *)
(* followed by a keyword, `@`, a number, a string, an operator or          *)
(* punctuation, records no symbol: the parser reaches it, steps over it    *)
(* alone and leaves the main table, the sub-maps and the import list as    *)
(* they were before it; no diagnostic is emitted at its position.          *)
(***************************************************************************)
C20_MalformedDeclarationIgnored ==
  \A u \in Analysed :
    LET toks == tokenize(documents[u].text)
    IN  \A i \in Malformed(toks) :
          LET before == ParsedBefore(toks, [pos |-> 0, info |-> DocumentInfoNew], i - 1)
          IN  /\ before.pos = i - 1
              /\ parseStep(toks, before) = [pos |-> i, info |-> before.info]
              /\ \A k \in 1..Len(diagnostics[u]) :
                   diagnostics[u][k].range.start #
                     [line |-> toks[i].line, character |-> toks[i].column]
              /\ \A k \in 1..Len(documentInfos[u].symbols) :
                   documentInfos[u].symbols[k].range.start #
                     [line |-> toks[i].line, character |-> toks[i].column]

\* C20's case: after an import, a function and a variable, `struct`
\* followed by `@`; the entry is the one of the text without them.
C20_Witness ==
  \E u \in Analysed :
    LET toks == tokenize(documents[u].text)
    IN  /\ \E i \in Malformed(toks) :
             /\ toks[i].value = <<"s","t","r","u","c","t">>
             /\ i < Len(toks)
             /\ toks[i + 1].type = "AT"
        /\ documentInfos[u] = parse(tokenize(Prelude))
        /\ documentInfos[u].imports # <<>>
        /\ documentInfos[u].functions # MapNew
        /\ documentInfos[u].variables # MapNew

(***************************************************************************)
(* Reference notions for the two loops: the states at the head of each     *)
(* iteration.                                                              *)
(***************************************************************************)
RECURSIVE LexerStates(_, _)
\* The lexer states at the head of the iterations of tokenize's loop from
\* s on, the state the loop ends in included.
LexerStates(text, s) ==
  IF s.pos < Len(text)
    THEN LET s1 == skipComment(text, skipWhitespace(text, s))
         IN  IF s1.pos >= Len(text)
               THEN <<s, s1>>
               ELSE <<s>> \o LexerStates(text, scanToken(text, s1).s)
    ELSE <<s>>

RECURSIVE ParserStates(_, _)
\* The parser states at the head of the iterations of parse's loop from p
\* on, the state the loop ends in included.
ParserStates(tokens, p) ==
  IF p.pos < Len(tokens)
    THEN <<p>> \o ParserStates(tokens, parseStep(tokens, p))
    ELSE <<p>>

(***************************************************************************)
(* C21.  On every text tokenize, parse and validateDocument return: every  *)
(* iteration of the tokenizer's loop consumes at least one character and   *)
(* every iteration of the extractor's loop at least one token, neither     *)
(* steps past the end of its input, so the tokens are at most as many as   *)
(* the characters and the diagnostics at most as many as the tokens.       *)
(***************************************************************************)
C21_LoopsConsume ==
  \A u \in Analysed :
    LET text   == documents[u].text
        toks   == tokenize(text)
        lexer  == LexerStates(text, LexerInit)
        parser == ParserStates(toks, [pos |-> 0, info |-> DocumentInfoNew])
    IN  /\ \A k \in 1..Len(lexer) : lexer[k].pos <= Len(text)
        /\ \A k \in 1..(Len(lexer) - 1) : lexer[k].pos < lexer[k + 1].pos
        /\ lexer[Len(lexer)].pos = Len(text)
        /\ \A k \in 1..Len(parser) : parser[k].pos <= Len(toks)
        /\ \A k \in 1..(Len(parser) - 1) : parser[k].pos < parser[k + 1].pos
        /\ parser[Len(parser)].pos = Len(toks)
        /\ parser[Len(parser)].info = documentInfos[u]
        /\ Len(toks) <= Len(text)
        /\ Len(diagnostics[u]) <= Len(toks)
        /\ diagnostics[u] = validateDocument(toks)

\* C21's case: a malformed number, then a declaration keyword followed by
\* an unterminated string that ends the text with a backslash.
C21_Witness ==
  \E u \in Analysed :
    LET text == documents[u].text
        toks == tokenize(text)
    IN  /\ Len(text) > 0 /\ text[Len(text)] = "\\"
        /\ Len(toks) >= 3
        /\ toks[Len(toks)].type = "STRING" /\ ~toks[Len(toks)].valid
        /\ Len(toks) - 1 \in Malformed(toks)
        /\ \E i \in 1..Len(toks) :
             toks[i].type = "NUMBER" /\ ~NumberRegexTest(toks[i].value)
        /\ Len(diagnostics[u]) = 2

(***************************************************************************)
(* Reference notions for operators.                                        *)
(***************************************************************************)
OperatorTexts ==
  { <<"=","=">>, <<"!","=">>, <<"<","=">>, <<">","=">>, <<"-",">">>, <<"=",">">> }

\* The two characters of text from the 1-based index p are an operator.
OperatorAt(text, p) ==
  p + 1 <= Len(text) /\ <<text[p], text[p + 1]>> \in OperatorTexts

(***************************************************************************)
(* C22.  Where a token starts that is neither a string, a number, an       *)
(* identifier nor `@`, the token is the two-character OPERATOR when the    *)
(* two characters at that place are one of == != <= >= -> =>, and the      *)
(* one-character PUNCTUATION only when they are not; the next token        *)
(* starts after the characters of this one.                                *)
(***************************************************************************)
C22_OperatorBeforePunctuation ==
  \A u \in Analysed :
    LET text == documents[u].text
        toks == tokenize(text)
    IN  \A i \in 1..Len(toks) :
          toks[i].type \in {"OPERATOR", "PUNCTUATION"}
          => LET p == TokenIndex(text, toks[i])
             IN  /\ OperatorAt(text, p)
                      => /\ toks[i].type = "OPERATOR"
                         /\ toks[i].value = <<text[p], text[p + 1]>>
                 /\ ~OperatorAt(text, p)
                      => /\ toks[i].type = "PUNCTUATION"
                         /\ toks[i].value = <<text[p]>>
                 /\ i < Len(toks)
                      => TokenIndex(text, toks[i + 1]) >= p + Len(toks[i].value)

\* C22's case: `===` is the operator `==` followed by the punctuation `=`.
C22_Witness ==
  \E u \in Analysed :
    /\ documents[u].text = <<"=","=","=">>
    /\ tokenize(documents[u].text) =
         << [type |-> "OPERATOR", value |-> <<"=","=">>, line |-> 0, column |-> 0],
            [type |-> "PUNCTUATION", value |-> <<"=">>, line |-> 0, column |-> 2] >>

(***************************************************************************)
(* Reference notions for numbers: runs of digits and '.'.                  *)
(***************************************************************************)
\* The characters p..q of text (1-based) are digits and '.' and the run
\* cannot be extended to the right.
MaximalNumberRun(text, p, q) ==
  /\ p <= q /\ q <= Len(text)
  /\ \A k \in p..q : IsNumberChar(text[k])
  /\ q = Len(text) \/ ~IsNumberChar(text[q + 1])

\* A digit stands in the run of digits and '.' that ends just before the
\* 1-based index p.
DigitInRunBefore(text, p) ==
  \E d \in 1..(p - 1) : IsDigit(text[d]) /\ \A k \in d..(p - 1) : IsNumberChar(text[k])

\* text has neither a quote nor a comment.
PlainText(text) == \A p \in 1..Len(text) : text[p] \notin { "\"", "'", "%" }

(***************************************************************************)
(* C23.  A NUMBER token starts at a digit and its text is the maximal run  *)
(* of digits and '.' from there, whatever its shape; the token after it    *)
(* starts at the first other character.  In a text without quotes and      *)
(* comments every digit belongs to a number or an identifier token, and a  *)
(* '.' with no digit in the run before it is a PUNCTUATION token.          *)
(***************************************************************************)
C23_NumberIsMaximalRun ==
  \A u \in Analysed :
    LET text == documents[u].text
        toks == tokenize(text)
    IN  /\ \A i \in 1..Len(toks) :
             toks[i].type = "NUMBER"
             => LET p == TokenIndex(text, toks[i])
                    q == p + Len(toks[i].value) - 1
                IN  /\ IsDigit(text[p])
                    /\ MaximalNumberRun(text, p, q)
                    /\ toks[i].value = SubSeq(text, p, q)
                    /\ (q < Len(text) /\ text[q + 1] \notin Whitespace \cup {"%"})
                         => /\ i < Len(toks)
                            /\ TokenIndex(text, toks[i + 1]) = q + 1
        /\ PlainText(text)
             => \A p \in 1..Len(text) :
                  /\ (text[p] = "." /\ ~DigitInRunBefore(text, p))
                       => \E i \in 1..Len(toks) :
                            /\ TokenIndex(text, toks[i]) = p
                            /\ toks[i].type = "PUNCTUATION"
                            /\ toks[i].value = <<".">>
                  /\ IsDigit(text[p])
                       => \E i \in 1..Len(toks) :
                            /\ toks[i].type \in {"NUMBER", "IDENTIFIER", "KEYWORD"}
                            /\ TokenIndex(text, toks[i]) <= p
                            /\ p < TokenIndex(text, toks[i]) + Len(toks[i].value)

\* C23's case: `1..a` is the NUMBER `1..` followed by the IDENTIFIER `a`.
C23_Witness ==
  \E u \in Analysed :
    /\ documents[u].text = <<"1",".",".","a">>
    /\ tokenize(documents[u].text) =
         << [type |-> "NUMBER", value |-> <<"1",".",".">>, line |-> 0, column |-> 0],
            [type |-> "IDENTIFIER", value |-> <<"a">>, line |-> 0, column |-> 3] >>

(***************************************************************************)
(* C24.  For every STRING token that is not valid, the diagnostic          *)
(* `Unterminated string literal` has the range that runs on the token's    *)
(* line from the token's column to that column + length(value) + 1, and    *)
(* that range covers the opening quote and every character the scan       *)
(* consumed for the token: the consumed characters are on the token's      *)
(* line and are length(value) + 1 in number.                               *)
(* Violated by the code: the value leaves out each backslash the scan      *)
(* consumed, and the scan consumes newlines, so the range is shorter than  *)
(* the consumed text after an escape and ends on the wrong line after a    *)
(* newline.                                                                *)
(***************************************************************************)
C24_UnterminatedRangeCoversScan ==
  \A u \in Analysed :
    LET text == documents[u].text
        toks == tokenize(text)
    IN  \A i \in 1..Len(toks) :
          (toks[i].type = "STRING" /\ ~toks[i].valid)
          => LET p        == TokenIndex(text, toks[i])
                 consumed == SubSeq(text, p, Len(text))
                 range    == [start |-> [line |-> toks[i].line,
                                          character |-> toks[i].column],
                              end   |-> [line |-> toks[i].line,
                                          character |-> toks[i].column
                                                          + Len(toks[i].value) + 1]]
             IN  /\ \E k \in 1..Len(diagnostics[u]) :
                      /\ diagnostics[u][k].message = "Unterminated string literal"
                      /\ diagnostics[u][k].range = range
                 /\ \A k \in 1..Len(consumed) : consumed[k] # "\n"
                 /\ range.end.character - range.start.character = Len(consumed)

(***************************************************************************)
(* Reference notions for word resolution on the line of a request.         *)
(***************************************************************************)
\* A hover or definition request on a line of the open document u has been
\* answered.
AnsweredOnLine(u) ==
  /\ Answered("hover", u) \/ Answered("definition", u)
  /\ u \in DOMAIN documents
  /\ response.params.position.line < Len(split(documents[u].text))

RequestLine(u) == split(documents[u].text)[response.params.position.line + 1]

\* The 0-based offset c of line holds a word character.
WordCharAt(line, c) == c >= 0 /\ c < Len(line) /\ IsWordChar(line[c + 1])

(***************************************************************************)
(* C25 as stated.  Word resolution yields nothing when the offset is       *)
(* negative or at or past the line's length, and when it is on a non-word  *)
(* character with no word character adjacent to it; it yields a word in    *)
(* every other case.  Violated on a non-word character whose only          *)
(* adjacent word character is the one after it: the lookup yields nothing. *)
(***************************************************************************)
C25_WordUnlessNoneAdjacent ==
  \A u \in Uris :
    AnsweredOnLine(u)
    => LET line == RequestLine(u)
           c    == response.params.position.character
       IN  /\ getWordRangeAtPosition(line, 0 - 1 - c) = undefined
           /\ getWordRangeAtPosition(line, c) = undefined
                <=> \/ c >= Len(line)
                    \/ /\ ~WordCharAt(line, c)
                       /\ ~WordCharAt(line, c - 1)
                       /\ ~WordCharAt(line, c + 1)

(***************************************************************************)
(* C25 amended.  Word resolution yields nothing when the offset is         *)
(* negative or at or past the line's length, and when it is on a non-word  *)
(* character that no word character precedes; it yields a word, the run    *)
(* of word characters that holds or ends at the offset, when the offset    *)
(* is on a word character or on a non-word character directly after one.   *)
(***************************************************************************)
C25_WordAtOrJustBefore ==
  \A u \in Uris :
    AnsweredOnLine(u)
    => LET line  == RequestLine(u)
           c     == response.params.position.character
           range == getWordRangeAtPosition(line, c)
       IN  /\ getWordRangeAtPosition(line, 0 - 1 - c) = undefined
           /\ range = undefined
                <=> \/ c >= Len(line)
                    \/ ~WordCharAt(line, c) /\ ~WordCharAt(line, c - 1)
           /\ range # undefined
                => /\ range.start <= c /\ c <= range.end /\ range.start < range.end
                   /\ \A k \in range.start..(range.end - 1) : WordCharAt(line, k)
                   /\ ~WordCharAt(line, range.start - 1)
                   /\ ~WordCharAt(line, range.end)
           /\ (Answered("definition", u) /\ range = undefined)
                => response.result = undefined

\* C25's case: a request on a non-word character that follows a non-word
\* character and precedes a word character; nothing is resolved.
C25_Witness ==
  \E u \in Uris :
    /\ AnsweredOnLine(u)
    /\ LET line == RequestLine(u)
           c    == response.params.position.character
       IN  /\ c > 0 /\ c < Len(line)
           /\ ~WordCharAt(line, c) /\ ~WordCharAt(line, c - 1) /\ WordCharAt(line, c + 1)
           /\ getWordRangeAtPosition(line, c) = undefined
           /\ response.result = undefined

(***************************************************************************)
(* Reference notions for unterminated strings.                             *)
(***************************************************************************)
\* The indices of the STRING tokens of toks that are not valid.
Unterminated(toks) ==
  { i \in 1..Len(toks) : toks[i].type = "STRING" /\ ~toks[i].valid }

RECURSIVE QuoteClosedFrom(_, _, _)
\* An unescaped quote stands at or after the 1-based index i of text, on
\* whatever line.
QuoteClosedFrom(text, quote, i) ==
  IF i > Len(text) THEN FALSE
  ELSE IF text[i] = quote THEN TRUE
  ELSE IF text[i] = "\\" THEN QuoteClosedFrom(text, quote, i + 2)
  ELSE QuoteClosedFrom(text, quote, i + 1)

(***************************************************************************)
(* C26.  The tokens of a text hold at most one STRING token that is not    *)
(* valid, and it is the last token: its opening quote has no unescaped     *)
(* matching quote anywhere after it, on its line or a later one, and the   *)
(* text after the quote gives no token, symbol or import: the other        *)
(* tokens are those of the text before the quote and the store entry is    *)
(* the extraction of that text.                                            *)
(***************************************************************************)
C26_UnterminatedAbsorbsRest ==
  \A u \in Analysed :
    LET text == documents[u].text
        toks == tokenize(text)
    IN  /\ Cardinality(Unterminated(toks)) <= 1
        /\ \A i \in Unterminated(toks) :
             LET p      == TokenIndex(text, toks[i])
                 before == SubSeq(text, 1, p - 1)
             IN  /\ i = Len(toks)
                 /\ text[p] \in { "\"", "'" }
                 /\ ~QuoteClosedFrom(text, text[p], p + 1)
                 /\ SubSeq(toks, 1, i - 1) = tokenize(before)
                 /\ documentInfos[u].symbols = parse(tokenize(before)).symbols
                 /\ documentInfos[u].imports = parse(tokenize(before)).imports
                 /\ Len(diagnostics[u]) = Len(validateDocument(tokenize(before))) + 1

\* C26's case: an unterminated quote, then `let x` on the next line; the
\* declaration is inside the string token and the table does not hold x.
C26_Witness ==
  \E u \in Analysed :
    LET text == documents[u].text
        toks == tokenize(text)
    IN  \E i \in Unterminated(toks) :
          /\ toks[i].line = 0
          /\ \E k \in 1..(Len(toks[i].value) - 5) :
               SubSeq(toks[i].value, k, k + 5) = <<"\n","l","e","t"," ","x">>
          /\ documentInfos[u].symbols = MapNew

(***************************************************************************)
(* Reference notions for token positions: the offsets at which the scan    *)
(* of each token starts and ends, and the line and column of an offset.    *)
(***************************************************************************)
RECURSIVE TokenExtents(_, _)
\* For each token of text from the lexer state s on, the 0-based offset of
\* its first character and the offset just past its last consumed one.
TokenExtents(text, s) ==
  IF s.pos < Len(text)
    THEN LET s1 == skipComment(text, skipWhitespace(text, s))
         IN  IF s1.pos >= Len(text)
               THEN <<>>
               ELSE LET r == scanToken(text, s1)
                    IN  << [start |-> s1.pos, end |-> r.s.pos] >>
                          \o TokenExtents(text, r.s)
    ELSE <<>>

\* The newlines of text before the 0-based offset off.
NewlinesBefore(text, off) == { q \in 1..off : text[q] = "\n" }

\* The 0-based line of offset off: the number of newlines before it.
LineOfOffset(text, off) == Cardinality(NewlinesBefore(text, off))

\* The 0-based column of offset off: its distance from the character after
\* the last newline before it, or from the start of the text.
ColumnOfOffset(text, off) ==
  IF NewlinesBefore(text, off) = {}
    THEN off
    ELSE off - (CHOOSE q \in NewlinesBefore(text, off) :
                  \A r \in NewlinesBefore(text, off) : r <= q)

(***************************************************************************)
(* C27.  The line and column of every token are the 0-based line of its    *)
(* first character and the 0-based offset of that character in its line,   *)
(* the column counted from the last newline before it, a newline inside a  *)
(* string token included; the tokens stand in strictly increasing source   *)
(* position and no token starts before the previous one ends.              *)
(***************************************************************************)
C27_TokenPositions ==
  \A u \in Analysed :
    LET text    == documents[u].text
        toks    == tokenize(text)
        extents == TokenExtents(text, LexerInit)
    IN  /\ Len(extents) = Len(toks)
        /\ \A i \in 1..Len(toks) :
             /\ toks[i].line = LineOfOffset(text, extents[i].start)
             /\ toks[i].column = ColumnOfOffset(text, extents[i].start)
             /\ extents[i].start < extents[i].end
             /\ extents[i].end <= Len(text)
        /\ \A i \in 1..(Len(toks) - 1) :
             /\ extents[i].end <= extents[i + 1].start
             /\ \/ toks[i].line < toks[i + 1].line
                \/ /\ toks[i].line = toks[i + 1].line
                   /\ toks[i].column < toks[i + 1].column

\* C27's case: a token on the second line, after a string token that holds
\* a newline; its column counts from that newline.
C27_Witness ==
  \E u \in Analysed :
    LET toks == tokenize(documents[u].text)
    IN  \E i \in 1..(Len(toks) - 1) :
          /\ toks[i].type = "STRING"
          /\ \E k \in 1..Len(toks[i].value) : toks[i].value[k] = "\n"
          /\ toks[i].line = 0
          /\ toks[i + 1].line = 1
          /\ toks[i + 1].column = 1

(***************************************************************************)
(* Reference notions for names.                                            *)
(***************************************************************************)
\* name matches [A-Za-z_][A-Za-z0-9_]*.
IdentifierShaped(name) ==
  /\ Len(name) >= 1
  /\ name[1] \in Letters \cup {"_"}
  /\ \A k \in 1..Len(name) : name[k] \in Letters \cup Digits \cup {"_"}

\* The keys of the main table and of the two sub-maps of info, and the
\* elements of its import list.
NamesOf(info) ==
  MapKeys(info.symbols) \cup MapKeys(info.functions) \cup MapKeys(info.variables)
    \cup Elems(info.imports)

(***************************************************************************)
(* C28.  In every state of the store every key of a main table or of a     *)
(* sub-map and every element of an import list is the text of an           *)
(* IDENTIFIER token of the analysed text: not empty, a letter or '_'       *)
(* followed by letters, digits and '_', and not a keyword; so the keyword  *)
(* branch of hover never answers for a declared name.                      *)
(***************************************************************************)
C28_NamesAreIdentifiers ==
  \A u \in DOMAIN documentInfos :
    \A name \in NamesOf(documentInfos[u]) :
      /\ IdentifierShaped(name)
      /\ name \notin Elems(KEYWORDS)
      /\ u \in DOMAIN documents
           => \E i \in 1..Len(tokenize(documents[u].text)) :
                /\ tokenize(documents[u].text)[i].type = "IDENTIFIER"
                /\ tokenize(documents[u].text)[i].value = name

\* C28's case: `function let x`; the keyword after `function` is not taken
\* as a name and the table holds x alone, as a variable.
C28_Witness ==
  \E u \in Analysed :
    LET toks == tokenize(documents[u].text)
    IN  /\ \E i \in 1..(Len(toks) - 1) :
             /\ toks[i].type = "KEYWORD"
             /\ toks[i].value = <<"f","u","n","c","t","i","o","n">>
             /\ toks[i + 1].type = "KEYWORD"
        /\ MapKeys(documentInfos[u].symbols) = { <<"x">> }
        /\ documentInfos[u].functions = MapNew
        /\ MapKeys(documentInfos[u].variables) = { <<"x">> }

(***************************************************************************)
(* Reference notions for the outline: the first declaration of each name.  *)
(***************************************************************************)
\* The indices of the declarations of toks that declare a name no earlier
\* declaration declares.
FirstDeclarations(toks) ==
  { i \in Declarations(toks) :
      \A j \in Declarations(toks) : toks[j + 1].value = toks[i + 1].value => i <= j }

\* The k-th smallest element of the set of indices.
Nth(indices, k) == CHOOSE i \in indices : Cardinality({ j \in indices : j <= i }) = k

(***************************************************************************)
(* C29.  The document-symbol outline of an analysed document has exactly   *)
(* one entry per declared name, in the order in which the names are first  *)
(* declared in the text, and each entry carries the kind and the range of  *)
(* the last declaration of its name; for a document without a store entry  *)
(* the outline is empty.                                                   *)
(***************************************************************************)
C29_OutlineFirstOrderLastValue ==
  \A u \in Uris :
    Answered("documentSymbol", u)
    => /\ u \notin DOMAIN documentInfos => response.result = <<>>
       /\ u \in Analysed
            => LET toks   == tokenize(documents[u].text)
                   decls  == Declarations(toks)
                   firsts == FirstDeclarations(toks)
               IN  /\ Len(response.result) = Cardinality(firsts)
                   /\ \A k \in 1..Len(response.result) :
                        LET name == toks[Nth(firsts, k) + 1].value
                            last == DeclaredSymbol(toks,
                                      Last(DeclarationsOf(toks, decls, name)))
                        IN  /\ response.result[k].name = name
                            /\ response.result[k].kind = last.kind
                            /\ response.result[k].range = last.range
                            /\ response.result[k].selectionRange = last.range

\* C29's case: x is declared as a function, then f, then x again as a
\* variable; the outline lists x first, as a variable with the range of
\* its last declaration, and f second.
C29_Witness ==
  \E u \in Analysed :
    /\ Answered("documentSymbol", u)
    /\ Len(response.result) = 2
    /\ response.result[1].name = <<"x">>
    /\ response.result[1].kind = "Variable"
    /\ response.result[1].range.start.line > response.result[2].range.start.line
    /\ response.result[2].name = <<"f">>

(***************************************************************************)
(* Reference notions for requests on a closed document.                    *)
(***************************************************************************)
\* The step answers a request of kind op that names the document u.
Answers(op, u) ==
  /\ response = NoResponse
  /\ response'.op = op
  /\ response'.params.textDocument.uri = u

\* The names of the entries of a list of symbols or of outline entries.
NamesInOrder(list) == [k \in 1..Len(list) |-> list[k].name]

(***************************************************************************)
(* C30.  Every step that opens or changes a document sets its store entry  *)
(* and its stored diagnostics to those of the tokens of the new text, and  *)
(* every other step leaves the text, the entry and the diagnostics of an   *)
(* open document alone, so a request reads a table and a text of the same  *)
(* analysis.  A close leaves the entry of the text that was last           *)
(* analysed, and it stays until the                                        *)
(* document is opened again: completion and document symbols on the        *)
(* closed document still return its symbols, hover and definition return   *)
(* nothing.                                                                *)
(***************************************************************************)
C30_EntryOfLatestText ==
  [][ \A u \in Uris :
        /\ OpenedOrChanged(u)
             => \A text \in {documents'[u].text} :
                  /\ documentInfos'[u] = parse(tokenize(text))
                  /\ diagnostics'[u] = validateDocument(tokenize(text))
        /\ (u \in DOMAIN documents' /\ ~OpenedOrChanged(u))
             => /\ documentInfos'[u] = documentInfos[u]
                /\ diagnostics'[u] = diagnostics[u]
        /\ (u \in DOMAIN documents /\ u \notin DOMAIN documents')
             => documentInfos'[u] = parse(tokenize(documents[u].text))
        /\ (u \in DOMAIN documentInfos /\ u \notin DOMAIN documents
              /\ u \notin DOMAIN documents')
             => /\ documentInfos'[u] = documentInfos[u]
                /\ Answers("hover", u) => response'.result = undefined
                /\ Answers("definition", u) => response'.result = undefined
                /\ Answers("documentSymbol", u)
                     => NamesInOrder(response'.result) =
                          NamesInOrder(documentInfos[u].symbols)
                /\ Answers("completion", u)
                     => NamesInOrder(documentInfos[u].symbols) =
                          [k \in 1..Len(documentInfos[u].symbols) |->
                             response'.result[Len(fixedItems) + k].label] ]_vars

\* C30's case: completion on a closed document has been answered with the
\* item of foo, a symbol of its last analysed text.
C30_Witness ==
  \E u \in DOMAIN documentInfos :
    /\ u \notin DOMAIN documents
    /\ Answered("completion", u)
    /\ \E k \in 1..Len(response.result) : response.result[k].label = Foo
    /\ MapHas(documentInfos[u].symbols, Foo)

====
